---------------------------- MODULE Spec2Model ----------------------------
(***************************************************************************)
(* The registry validator of application-intent-language                   *)
(* (scripts/validate_registry.py).                                         *)
(*                                                                         *)
(* Representation of text.  A string that holds no '/' is the sequence of  *)
(* its dot-separated segments, so "my.schema.intent" is                    *)
(* <<"my", "schema", "intent">>, ".." is <<"", "", "">> and str.split(".") *)
(* and ".".join are the identity and the concatenation of such sequences.  *)
(* A segment is an atomic word; the character classes of the regular       *)
(* expressions are the sets of words below.  A relative path is the        *)
(* sequence of its parts (pathlib's Path.parts), each part such a string.  *)
(***************************************************************************)
EXTENDS Integers, Sequences, FiniteSets, TLC

VARIABLES
    call,                \* the function applied and its arguments (function specifications)
    ret,                 \* what the call returned, or the fail() it ended in
    fs,                  \* registry/packages: directory name -> (relative path -> content)
    index,               \* registry/index.json: the "packages" array
    pc,                  \* position of main()
    idx,                 \* enumerate(index["packages"]) position
    indexed_names,       \* validate_index_and_packages: indexed_names
    sources,             \* the not yet visited part of sorted(rglob("*.intent"))
    seen_identities,     \* validate_index_and_packages: seen_identities
    intent_entry_files,  \* validate_index_and_packages: intent_entry_files
    stdout               \* the lines printed so far

vars == <<call, ret, fs, index, pc, idx, indexed_names, sources,
          seen_identities, intent_entry_files, stdout>>

mainVars == <<fs, index, pc, idx, indexed_names, sources,
              seen_identities, intent_entry_files, stdout>>

-----------------------------------------------------------------------------
(* Bounds of the model *)

MaxSegs == 3        \* dot-segments of a flat file name or of a feature
MaxDirs == 2        \* directory parts of a nested path
MaxTail == 1        \* lines after the first line of a file given to parse_header
MaxEntries == 2     \* entry lines of an INCLUDES block
MaxFiles == 3       \* files of the package directory x

-----------------------------------------------------------------------------
(* Words and character classes *)

FACETS == <<"intent", "schema", "flow", "contract", "persona", "view", "event", "mapping">>

FacetSet == {FACETS[i] : i \in 1..Len(FACETS)}

\* Words that match [a-z0-9]+
LowerAlnum == FacetSet \cup {"x", "y", "zz", "my", "module", "weather", "sub", "feature",
                             "txt", "json", "ail", "manifest", "package",
                             "0", "1", "2", "00", "01"}

\* Words that match [0-9]+
Digits == {"0", "1", "2", "00", "01"}

\* Words that are a [a-z0-9]+ word followed by one line feed
LowerAlnumNL == {"x\n"}

\* Words that are digits followed by one line feed
DigitsNL == {"0\n"}

Last(s) == s[Len(s)]

Front(s) == SubSeq(s, 1, Len(s) - 1)

RECURSIVE Join(_)
\* ".".join(parts) of strings given as segment sequences
Join(parts) == IF parts = <<>> THEN <<>> ELSE parts[1] \o Join(Tail(parts))

\* re's "$" matches at the end of the string and also before a line feed that ends it
FEATURE_RE(feature) ==
    /\ Len(feature) >= 1
    /\ \A i \in 1..(Len(feature) - 1) : feature[i] \in LowerAlnum
    /\ Last(feature) \in LowerAlnum \cup LowerAlnumNL

VERSION_RE(version) ==
    /\ Len(version) = 2
    /\ version[1] \in Digits
    /\ version[2] \in Digits \cup DigitsNL

-----------------------------------------------------------------------------
(* Results: a returned value, or the message of the fail() that ended the run *)

Return(v) == [ok |-> TRUE, val |-> v, err |-> "", info |-> <<>>]

Fail(kind, detail) == [ok |-> FALSE, val |-> <<>>, err |-> kind, info |-> detail]

-----------------------------------------------------------------------------
(* pathlib *)

\* PurePath.suffix == ".intent"
HasIntentSuffix(name) ==
    /\ Len(name) >= 2
    /\ ~(Len(name) = 2 /\ name[1] = "")
    /\ Last(name) = "intent"

\* PurePath.stem
Stem(name) ==
    IF Len(name) >= 2 /\ ~(Len(name) = 2 /\ name[1] = "") /\ Last(name) # ""
    THEN Front(name) ELSE name

-----------------------------------------------------------------------------
(* derive_identity_from_relpath *)
\* The flat branch splitting off the last stem segment whatever it is
DeriveFlat_SplitLast(rel_path) ==
    LET stem_parts == Front(Last(rel_path))
    IN  IF Len(stem_parts) < 2
        THEN Fail("flat_filename", <<>>)
        ELSE Return([feature |-> Front(stem_parts), facet |-> <<Last(stem_parts)>>])

DeriveFlat(rel_path) ==
    LET stem_parts == Front(Last(rel_path))
    IN  IF Last(stem_parts) \in FacetSet
        THEN IF Len(stem_parts) < 2
             THEN Fail("flat_filename", <<>>)
             ELSE Return([feature |-> Front(stem_parts), facet |-> <<Last(stem_parts)>>])
        ELSE Return([feature |-> stem_parts, facet |-> <<"intent">>])

DeriveNested(rel_path) ==
    Return([feature |-> Join(Front(rel_path)), facet |-> Stem(Last(rel_path))])

derive_identity_from_relpath(rel_path) ==
    IF ~HasIntentSuffix(Last(rel_path))
    THEN Fail("path_suffix", <<>>)
    ELSE LET d == IF Len(rel_path) = 1 THEN DeriveFlat(rel_path) ELSE DeriveNested(rel_path)
         IN  IF ~d.ok THEN d
             ELSE IF ~FEATURE_RE(d.val.feature) THEN Fail("derived_feature", d.val.feature)
             ELSE IF ~(Len(d.val.facet) = 1 /\ d.val.facet[1] \in FacetSet)
                  THEN Fail("derived_facet", d.val.facet)
             ELSE d


-----------------------------------------------------------------------------
(* File content.  raw.splitlines() is a sequence of lines; a line is one of *)
(*   header  [lead] kw [ws whitespace] feature "#" facet "@" version [trail] *)
(*   text    any other text, with the legacy tokens it contains              *)
(*   blank   empty or whitespace only                                        *)
(*   start   "INCLUDES {"            decl   "INCLUDES" not followed by "{"   *)
(*   entry   key: "path"             end    "}"                              *)

LEGACY_TOKENS == <<":::AIL_METADATA", ":::AIM_METADATA", "FEATURE:", "FACET:", "VERSION:">>

LegacySet == {LEGACY_TOKENS[i] : i \in 1..Len(LEGACY_TOKENS)}

HeaderLine(lead, kw, ws, feature, facet, version, trail) ==
    [t |-> "header", lead |-> lead, kw |-> kw, ws |-> ws, feature |-> feature,
     facet |-> facet, version |-> version, trail |-> trail]

TextLine(tokens) == [t |-> "text", has |-> tokens]

BlankLine == [t |-> "blank"]

\* The legacy tokens that are substrings of a line
LegacyIn(line) ==
    CASE line.t = "text" -> line.has
      [] line.t = "header" -> {line.kw} \cap LegacySet
      [] OTHER -> {}
\* The first line taken without stripping
Strip_Identity(line) == line

\* str.strip()
Strip(line) ==
    IF line.t = "header" THEN [line EXCEPT !.lead = FALSE, !.trail = FALSE] ELSE line

HEADER_RE(line) ==
    /\ line.t = "header"
    /\ ~line.lead
    /\ line.kw = "AIM:"
    /\ line.ws >= 1
    /\ Len(line.feature) >= 1
    /\ \A i \in 1..Len(line.feature) : line.feature[i] \in LowerAlnum
    /\ line.facet \in FacetSet
    /\ Len(line.version) = 2
    /\ \A i \in 1..2 : line.version[i] \in Digits
    /\ ~line.trail

Min(S) == CHOOSE m \in S : \A n \in S : m <= n
\* The header grammar checked before the legacy tokens
parse_header_HeaderFirst(raw) ==
    LET found == {i \in 1..Len(LEGACY_TOKENS) :
                     \E l \in 1..Len(raw) : LEGACY_TOKENS[i] \in LegacyIn(raw[l])}
        first_line == IF raw # <<>> THEN Strip(raw[1]) ELSE BlankLine
    IN  IF ~HEADER_RE(first_line) THEN Fail("header_grammar", <<>>)
        ELSE IF found # {} THEN Fail("legacy_token", <<LEGACY_TOKENS[Min(found)]>>)
        ELSE Return([feature |-> first_line.feature, facet |-> <<first_line.facet>>,
                     version |-> first_line.version])

parse_header(raw) ==
    LET found == {i \in 1..Len(LEGACY_TOKENS) :
                     \E l \in 1..Len(raw) : LEGACY_TOKENS[i] \in LegacyIn(raw[l])}
        first_line == IF raw # <<>> THEN Strip(raw[1]) ELSE BlankLine
    IN  IF found # {} THEN Fail("legacy_token", <<LEGACY_TOKENS[Min(found)]>>)
        ELSE IF ~HEADER_RE(first_line) THEN Fail("header_grammar", <<>>)
        ELSE Return([feature |-> first_line.feature, facet |-> <<first_line.facet>>,
                     version |-> first_line.version])

-----------------------------------------------------------------------------
(* validate_source_file, validate_entry_file *)

\* An argument left at its default None
None == <<>>
\* The package checks made before the comparison of header and path
validate_source_file_PackageFirst(raw, rel_path, expected_feature, expected_version) ==
    LET h == parse_header(raw)
        p == derive_identity_from_relpath(rel_path)
    IN  IF ~h.ok THEN h
        ELSE IF ~p.ok THEN p
        ELSE IF expected_feature # None /\ h.val.feature # expected_feature
             THEN Fail("package_feature_mismatch", <<h.val.feature, expected_feature>>)
        ELSE IF expected_version # None /\ h.val.version # expected_version
             THEN Fail("package_version_mismatch", <<h.val.version, expected_version>>)
        ELSE IF p.val.feature # h.val.feature
             THEN Fail("path_feature_mismatch", <<p.val.feature, h.val.feature>>)
        ELSE IF p.val.facet # h.val.facet
             THEN Fail("path_facet_mismatch", <<p.val.facet, h.val.facet>>)
        ELSE h

validate_source_file(raw, rel_path, expected_feature, expected_version) ==
    LET h == parse_header(raw)
        p == derive_identity_from_relpath(rel_path)
    IN  IF ~h.ok THEN h
        ELSE IF ~p.ok THEN p
        ELSE IF p.val.feature # h.val.feature
             THEN Fail("path_feature_mismatch", <<p.val.feature, h.val.feature>>)
        ELSE IF p.val.facet # h.val.facet
             THEN Fail("path_facet_mismatch", <<p.val.facet, h.val.facet>>)
        ELSE IF expected_feature # None /\ h.val.feature # expected_feature
             THEN Fail("package_feature_mismatch", <<h.val.feature, expected_feature>>)
        ELSE IF expected_version # None /\ h.val.version # expected_version
             THEN Fail("package_version_mismatch", <<h.val.version, expected_version>>)
        ELSE h

\* The entry file validated as a source file of any facet
validate_entry_file_AnyFacet(raw, rel_path, expected_feature, expected_version) ==
    LET v == validate_source_file(raw, rel_path, expected_feature, expected_version)
    IN  IF ~v.ok THEN v
        ELSE IF v.val.feature # expected_feature
             THEN Fail("package_feature_mismatch", <<v.val.feature, expected_feature>>)
        ELSE Return(<<>>)

validate_entry_file(raw, rel_path, expected_feature, expected_version) ==
    LET v == validate_source_file(raw, rel_path, expected_feature, expected_version)
    IN  IF ~v.ok THEN v
        ELSE IF v.val.feature # expected_feature
             THEN Fail("package_feature_mismatch", <<v.val.feature, expected_feature>>)
        ELSE IF v.val.facet # <<"intent">> THEN Fail("entry_facet", v.val.facet)
        ELSE Return(<<>>)

-----------------------------------------------------------------------------
(* validate_includes.  An include path is [abs, parts]: whether it starts  *)
(* with '/', and its parts; the empty string has no parts.                 *)

StartLine == [t |-> "start"]

DeclLine == [t |-> "decl"]

EndLine == [t |-> "end"]

EntryLine(key, rel) == [t |-> "entry", key |-> key, rel |-> rel]

RelPath(parts) == [abs |-> FALSE, parts |-> parts]

AbsPath(parts) == [abs |-> TRUE, parts |-> parts]

INCLUDES_START_RE(line) == line.t = "start"

\* re.match(r"^\s*INCLUDES\b", line)
INCLUDES_WORD_RE(line) == line.t \in {"start", "decl"}

IncludeKeys == {"schema", "flow", "contract", "persona", "view", "event"}

\* The entry grammar taking every facet name for a key
INCLUDES_ENTRY_RE_AnyFacet(line) ==
    /\ line.t = "entry"
    /\ line.key \in FacetSet
    /\ (line.rel.abs \/ line.rel.parts # <<>>)

INCLUDES_ENTRY_RE(line) ==
    /\ line.t = "entry"
    /\ line.key \in IncludeKeys
    /\ (line.rel.abs \/ line.rel.parts # <<>>)

INCLUDES_END_RE(line) == line.t = "end"

RECURSIVE ScanLines(_, _, _, _)
RECURSIVE ScanBlock(_, _, _, _)

\* The outer loop opening a block without looking at include_block_found
ScanLines_AnyBlock(lines, i, include_block_found, include_entries) ==
    IF i > Len(lines) THEN Return(include_entries)
    ELSE IF INCLUDES_START_RE(lines[i]) THEN ScanBlock(lines, i + 1, {}, include_entries)
    ELSE IF INCLUDES_WORD_RE(lines[i]) THEN Fail("malformed_includes_declaration", <<>>)
    ELSE ScanLines(lines, i + 1, include_block_found, include_entries)

\* The outer while loop at line i: the include entries of the file, or the fail()
ScanLines(lines, i, include_block_found, include_entries) ==
    IF i > Len(lines) THEN Return(include_entries)
    ELSE IF INCLUDES_START_RE(lines[i])
         THEN IF include_block_found THEN Fail("multiple_includes_blocks", <<>>)
              ELSE ScanBlock(lines, i + 1, {}, include_entries)
    ELSE IF INCLUDES_WORD_RE(lines[i]) THEN Fail("malformed_includes_declaration", <<>>)
    ELSE ScanLines(lines, i + 1, include_block_found, include_entries)

\* The inner loop appending every entry without looking at seen_keys
ScanBlock_AnyKey(lines, i, seen_keys, include_entries) ==
    IF i > Len(lines) THEN Fail("unterminated_includes_block", <<>>)
    ELSE IF INCLUDES_END_RE(lines[i]) THEN ScanLines(lines, i + 1, TRUE, include_entries)
    ELSE IF lines[i].t = "blank" THEN ScanBlock(lines, i + 1, seen_keys, include_entries)
    ELSE IF ~INCLUDES_ENTRY_RE(lines[i]) THEN Fail("malformed_includes_entry", <<lines[i]>>)
    ELSE ScanBlock(lines, i + 1, seen_keys \cup {lines[i].key},
                   Append(include_entries, <<lines[i].key, lines[i].rel>>))

\* The inner loop taking the end of the file for the end of the block
ScanBlock_EndOfFile(lines, i, seen_keys, include_entries) ==
    IF i > Len(lines) THEN Return(include_entries)
    ELSE IF INCLUDES_END_RE(lines[i]) THEN ScanLines(lines, i + 1, TRUE, include_entries)
    ELSE IF lines[i].t = "blank" THEN ScanBlock(lines, i + 1, seen_keys, include_entries)
    ELSE IF ~INCLUDES_ENTRY_RE(lines[i]) THEN Fail("malformed_includes_entry", <<lines[i]>>)
    ELSE IF lines[i].key \in seen_keys THEN Fail("duplicate_includes_key", <<lines[i].key>>)
    ELSE ScanBlock(lines, i + 1, seen_keys \cup {lines[i].key},
                   Append(include_entries, <<lines[i].key, lines[i].rel>>))

\* The inner while loop at line i, and the lines after the block
ScanBlock(lines, i, seen_keys, include_entries) ==
    IF i > Len(lines) THEN Fail("unterminated_includes_block", <<>>)
    ELSE IF INCLUDES_END_RE(lines[i]) THEN ScanLines(lines, i + 1, TRUE, include_entries)
    ELSE IF lines[i].t = "blank" THEN ScanBlock(lines, i + 1, seen_keys, include_entries)
    ELSE IF ~INCLUDES_ENTRY_RE(lines[i]) THEN Fail("malformed_includes_entry", <<lines[i]>>)
    ELSE IF lines[i].key \in seen_keys THEN Fail("duplicate_includes_key", <<lines[i].key>>)
    ELSE ScanBlock(lines, i + 1, seen_keys \cup {lines[i].key},
                   Append(include_entries, <<lines[i].key, lines[i].rel>>))

\* str.endswith(".intent") of a path string
EndsWithIntent(rel) ==
    /\ rel.parts # <<>>
    /\ Len(Last(rel.parts)) >= 2
    /\ Last(Last(rel.parts)) = "intent"

ParentRef == <<"", "", "">>
\* The declared key never compared with the facet of the file included
CheckInclude_AnyFacet(files, entry_rel, include_facet, rel, expected_feature, expected_version) ==
    LET target == Front(entry_rel) \o rel.parts
    IN  IF rel.abs THEN Fail("includes_absolute_path", <<rel>>)
        ELSE IF ~EndsWithIntent(rel) THEN Fail("includes_wrong_extension", <<rel>>)
        ELSE IF \E k \in 1..Len(rel.parts) : rel.parts[k] = ParentRef
             THEN Fail("includes_parent_traversal", <<rel>>)
        ELSE IF target \notin DOMAIN files THEN Fail("includes_missing_file", <<rel>>)
        ELSE LET v == validate_source_file(files[target], target,
                                           expected_feature, expected_version)
             IN  IF ~v.ok THEN v ELSE Return(<<>>)

\* The extension of the path checked before is_absolute()
CheckInclude_ExtensionFirst(files, entry_rel, include_facet, rel, expected_feature, expected_version) ==
    LET target == Front(entry_rel) \o rel.parts
    IN  IF ~EndsWithIntent(rel) THEN Fail("includes_wrong_extension", <<rel>>)
        ELSE IF rel.abs THEN Fail("includes_absolute_path", <<rel>>)
        ELSE IF \E k \in 1..Len(rel.parts) : rel.parts[k] = ParentRef
             THEN Fail("includes_parent_traversal", <<rel>>)
        ELSE IF target \notin DOMAIN files THEN Fail("includes_missing_file", <<rel>>)
        ELSE LET v == validate_source_file(files[target], target,
                                           expected_feature, expected_version)
             IN  IF ~v.ok THEN v
                 ELSE IF v.val.facet # <<include_facet>>
                      THEN Fail("include_facet_mismatch", <<rel, v.val.facet, include_facet>>)
                 ELSE Return(<<>>)

\* One include of the for loop: none of its checks fails, or the fail()
CheckInclude(files, entry_rel, include_facet, rel, expected_feature, expected_version) ==
    LET target == Front(entry_rel) \o rel.parts
    IN  IF rel.abs THEN Fail("includes_absolute_path", <<rel>>)
        ELSE IF ~EndsWithIntent(rel) THEN Fail("includes_wrong_extension", <<rel>>)
        ELSE IF \E k \in 1..Len(rel.parts) : rel.parts[k] = ParentRef
             THEN Fail("includes_parent_traversal", <<rel>>)
        ELSE IF target \notin DOMAIN files THEN Fail("includes_missing_file", <<rel>>)
        ELSE LET v == validate_source_file(files[target], target,
                                           expected_feature, expected_version)
             IN  IF ~v.ok THEN v
                 ELSE IF v.val.facet # <<include_facet>>
                      THEN Fail("include_facet_mismatch", <<rel, v.val.facet, include_facet>>)
                 ELSE Return(<<>>)

RECURSIVE CheckIncludes(_, _, _, _, _, _)
CheckIncludes(files, entry_rel, include_entries, k, expected_feature, expected_version) ==
    IF k > Len(include_entries) THEN Return(<<>>)
    ELSE LET c == CheckInclude(files, entry_rel, include_entries[k][1], include_entries[k][2],
                               expected_feature, expected_version)
         IN  IF ~c.ok THEN c
             ELSE CheckIncludes(files, entry_rel, include_entries, k + 1,
                                expected_feature, expected_version)

\* files: the files of the package directory; entry_rel: the entry file's path in it
validate_includes(files, entry_rel, expected_feature, expected_version) ==
    LET parsed == ScanLines(files[entry_rel], 1, FALSE, <<>>)
    IN  IF ~parsed.ok THEN parsed
        ELSE CheckIncludes(files, entry_rel, parsed.val, 1, expected_feature, expected_version)

-----------------------------------------------------------------------------
(* Inputs of the function specifications *)

SeqsUpTo(S, n) == UNION {[1..k -> S] : k \in 1..n}

Pending == Fail("pending", <<>>)

\* main() is not running
MainIdle ==
    /\ fs = <<>>
    /\ index = <<>>
    /\ pc = "idle"
    /\ idx = 0
    /\ indexed_names = {}
    /\ sources = <<>>
    /\ seen_identities = <<>>
    /\ intent_entry_files = <<>>
    /\ stdout = <<>>

StemWords == {"x", "my", "module", "schema", "intent", "Bad", "", "x\n"}

DirNames == {<<"x">>, <<"sub", "feature">>, <<"Bad">>, <<"x\n">>, <<"schema">>, ParentRef}

NestedStemWords == {"schema", "contract", "x", ""}

Extensions == {"intent", "txt"}

\* One-part paths <stem>.<extension>, and the file "intent" that has no extension
FlatPaths ==
    {<<stem \o <<ext>>>> : stem \in SeqsUpTo(StemWords, MaxSegs), ext \in Extensions}
        \cup {<<<<"intent">>>>}

NestedPaths ==
    {dirs \o <<stem \o <<ext>>>> : dirs \in SeqsUpTo(DirNames, MaxDirs),
                                   stem \in SeqsUpTo(NestedStemWords, 2), ext \in Extensions}

DeriveCalls == [fn : {"derive_identity_from_relpath"}, rel_path : FlatPaths \cup NestedPaths]

HeaderLines ==
    {HeaderLine(lead, kw, ws, feature, facet, version, trail) :
        lead \in BOOLEAN, kw \in {"AIM:", "aim:", "VERSION:"}, ws \in 0..2,
        feature \in {<<"weather">>, <<"my", "schema">>, <<"Weather">>},
        facet \in {"intent", "schema", "mapping", "widget"},
        version \in {<<"1", "0">>, <<"1", "0", "0">>, <<"01", "00">>, <<"1">>},
        trail \in BOOLEAN}

GoodHeader == HeaderLine(FALSE, "AIM:", 1, <<"weather">>, "intent", <<"1", "0">>, FALSE)

LaterLines == {BlankLine, GoodHeader, TextLine({}), TextLine({"FEATURE:"}),
               TextLine({":::AIM_METADATA"}), TextLine({"FACET:", ":::AIL_METADATA"}),
               TextLine({"VERSION:"}), StartLine, EndLine}

FirstLines == HeaderLines \cup LaterLines

RawContents == {<<>>} \cup {<<first>> \o rest : first \in FirstLines,
                                              rest \in {<<>>} \cup SeqsUpTo(LaterLines, MaxTail)}

HeaderCalls == [fn : {"parse_header"}, raw : RawContents]

Header(feature, facet, version) == HeaderLine(FALSE, "AIM:", 1, feature, facet, version, FALSE)

\* <feature>.intent for facet intent, <feature>.<facet>.intent otherwise
FlatLayout(feature, facet) ==
    <<IF facet = "intent" THEN feature \o <<"intent">> ELSE feature \o <<facet, "intent">>>>

\* <feature>/<facet>.intent, the feature one directory
NestedLayout(feature, facet) == <<feature, <<facet, "intent">>>>

\* <segment>/.../<segment>/<facet>.intent, one directory per segment of the feature
DeepLayout(feature, facet) == [i \in 1..Len(feature) |-> <<feature[i]>>] \o <<<<facet, "intent">>>>

FeatureWords == {"x", "my", "schema", "intent", "1"}

Features == SeqsUpTo(FeatureWords, MaxSegs)

Versions == {<<"1", "0">>, <<"1", "00">>, <<"01", "0">>, <<"2", "0">>}

Layouts(feature, facet) ==
    {FlatLayout(feature, facet), NestedLayout(feature, facet), DeepLayout(feature, facet)}

LayoutCall(feature, facet, rel_path) ==
    [fn |-> "validate_source_file", raw |-> <<Header(feature, facet, <<"1", "0">>)>>,
     rel_path |-> rel_path, expected_feature |-> None, expected_version |-> None]

LayoutCalls ==
    UNION {{LayoutCall(feature, facet, rel_path) : rel_path \in Layouts(feature, facet)} :
              feature \in Features, facet \in FacetSet}

SourceContents ==
    {<<Header(feature, facet, version)>> :
        feature \in {<<"x">>, <<"y">>}, facet \in {"intent", "schema"}, version \in Versions}
    \cup {<<>>, <<TextLine({"FACET:"})>>, <<Header(<<"x">>, "schema", <<"1", "0">>), TextLine({"VERSION:"})>>}

SourcePaths == {<<<<"x", "intent">>>>, <<<<"x", "schema", "intent">>>>, <<<<"y", "intent">>>>,
                <<<<"x">>, <<"schema", "intent">>>>, <<<<"x">>, <<"intent", "intent">>>>,
                <<<<"schema", "intent">>>>, <<<<"x", "txt">>>>}

SourceCalls ==
    [fn : {"validate_source_file"}, raw : SourceContents, rel_path : SourcePaths,
     expected_feature : {None, <<"x">>, <<"y">>},
     expected_version : {None} \cup Versions]

-----------------------------------------------------------------------------
(* The function specifications: one call of one function on one input *)

InitDerive == call \in DeriveCalls /\ ret = Pending /\ MainIdle

CallDerive ==
    /\ call.fn = "derive_identity_from_relpath"
    /\ ret = Pending
    /\ ret' = derive_identity_from_relpath(call.rel_path)
    /\ UNCHANGED <<call, mainVars>>

SpecDerive == InitDerive /\ [][CallDerive]_vars

InitHeader == call \in HeaderCalls /\ ret = Pending /\ MainIdle

CallParseHeader ==
    /\ call.fn = "parse_header"
    /\ ret = Pending
    /\ ret' = parse_header(call.raw)
    /\ UNCHANGED <<call, mainVars>>

SpecHeader == InitHeader /\ [][CallParseHeader]_vars

InitSource == call \in SourceCalls \cup LayoutCalls /\ ret = Pending /\ MainIdle

CallValidateSource ==
    /\ call.fn = "validate_source_file"
    /\ ret = Pending
    /\ ret' = validate_source_file(call.raw, call.rel_path,
                                   call.expected_feature, call.expected_version)
    /\ UNCHANGED <<call, mainVars>>

SpecSource == InitSource /\ [][CallValidateSource]_vars

-----------------------------------------------------------------------------
(* validate_includes on the entry file of package x, version 1.0 *)

PkgX == <<"x">>

V10 == <<"1", "0">>

IncludeRels ==
    {RelPath(<<<<"x", "schema", "intent">>>>), RelPath(<<<<"x", "flow", "intent">>>>),
     RelPath(<<<<"schema", "intent">>>>), RelPath(<<ParentRef, <<"x">>>>),
     RelPath(<<ParentRef, <<"x", "intent">>>>), AbsPath(<<<<"x", "schema", "intent">>>>),
     RelPath(<<<<"x", "schema", "txt">>>>)}

IncludeEntryLines ==
    {EntryLine("schema", rel) : rel \in IncludeRels}
        \cup {EntryLine("flow", RelPath(<<<<"x", "flow", "intent">>>>)),
              EntryLine("flow", RelPath(<<<<"x", "schema", "intent">>>>))}

\* The entry lines drawn on after the first entry of a block
FollowingEntryLines ==
    {EntryLine("schema", RelPath(<<<<"x", "schema", "intent">>>>)),
     EntryLine("schema", RelPath(<<ParentRef, <<"x", "intent">>>>)),
     EntryLine("flow", RelPath(<<<<"x", "flow", "intent">>>>)),
     EntryLine("flow", RelPath(<<<<"x", "schema", "intent">>>>))}

IncludeEntrySeqs ==
    {es \in SeqsUpTo(IncludeEntryLines, MaxEntries) :
        \A i \in 2..Len(es) : es[i] \in FollowingEntryLines}

IncludeBlocks ==
    {<<>>} \cup {<<StartLine>> \o es \o <<EndLine>> : es \in IncludeEntrySeqs}

\* Bodies with a second block, a start line inside a block, a malformed line, a
\* blank line, an unterminated block or a malformed declaration
OddBlocks ==
    LET e1 == EntryLine("schema", RelPath(<<<<"x", "schema", "intent">>>>))
        e2 == EntryLine("schema", RelPath(<<<<"x", "flow", "intent">>>>))
        e3 == EntryLine("flow", RelPath(<<<<"x", "flow", "intent">>>>))
        bad == EntryLine("mapping", RelPath(<<<<"x", "schema", "intent">>>>))
    IN  {<<StartLine, e1, EndLine, StartLine, EndLine>>,
         <<StartLine, e1, EndLine, TextLine({}), StartLine, e3, EndLine>>,
         <<StartLine, EndLine, StartLine, EndLine>>,
         <<StartLine, e1, StartLine, EndLine>>,
         <<StartLine, e1, StartLine, e3, EndLine, EndLine>>,
         <<StartLine, StartLine, EndLine>>,
         <<StartLine, e1, TextLine({}), EndLine, StartLine, EndLine>>,
         <<DeclLine, StartLine, e1, EndLine, StartLine, EndLine>>,
         <<StartLine, e1, BlankLine, EndLine, BlankLine>>,
         <<StartLine, e1, BlankLine, e1, EndLine>>,
         <<StartLine, e1, TextLine({}), e2, EndLine>>,
         <<StartLine, bad, e1, e1, EndLine>>,
         <<StartLine, e1, e3, e2, EndLine>>,
         <<StartLine, e1>>,
         <<DeclLine>>,
         <<EndLine, e1>>,
         <<StartLine>>,
         <<StartLine, BlankLine>>,
         <<StartLine, e1, BlankLine, e3>>,
         <<StartLine, e1, e2>>,
         <<DeclLine, StartLine, e1>>,
         <<TextLine({}), StartLine, e1, e3, BlankLine>>,
         <<StartLine, e1, TextLine({})>>,
         <<StartLine, EndLine>>,
         <<StartLine, BlankLine, EndLine>>,
         <<StartLine, BlankLine, BlankLine, EndLine, TextLine({})>>,
         <<StartLine, EntryLine("intent", RelPath(<<<<"x", "intent">>>>)), EndLine>>,
         <<StartLine, EntryLine("mapping", RelPath(<<<<"x", "mapping", "intent">>>>)), EndLine>>,
         <<StartLine, e1, EntryLine("intent", RelPath(<<<<"x", "schema", "intent">>>>)), EndLine>>,
         <<StartLine, EntryLine("schema", AbsPath(<<<<"x", "schema", "intent">>>>)), EndLine, DeclLine>>,
         <<StartLine, EntryLine("schema", AbsPath(<<<<"x", "schema", "intent">>>>)), EndLine,
           StartLine, EndLine>>,
         <<StartLine, EntryLine("schema", RelPath(<<<<"x", "schema", "txt">>>>)),
           EntryLine("mapping", RelPath(<<<<"x", "schema", "intent">>>>)), EndLine>>,
         <<StartLine, EntryLine("schema", AbsPath(<<<<"x", "schema", "txt">>>>)), EndLine>>,
         <<StartLine, EntryLine("schema", AbsPath(<<ParentRef, <<"x", "schema", "intent">>>>)), EndLine>>,
         <<StartLine, EntryLine("flow", RelPath(<<<<"x", "schema", "intent">>>>)),
           EntryLine("schema", AbsPath(<<<<"x", "schema", "intent">>>>)), EndLine>>,
         <<StartLine, e3, EntryLine("schema", RelPath(<<<<"x", "schema", "txt">>>>)), EndLine>>}
         \cup {<<StartLine, EntryLine(key, RelPath(<<<<"x", "schema", "intent">>>>)), EndLine>> :
                  key \in {"contract", "persona", "view", "event"}}

EntryBodies == {<<Header(PkgX, "intent", V10)>> \o block : block \in IncludeBlocks \cup OddBlocks}

SchemaContents == {<<Header(PkgX, "schema", V10)>>, <<Header(PkgX, "flow", V10)>>,
                   <<Header(PkgX, "schema", <<"2", "0">>)>>, <<Header(<<"y">>, "schema", V10)>>}

FlowContents == {<<Header(PkgX, "flow", V10)>>, <<Header(PkgX, "schema", V10)>>}

\* A directory holding file p with content c, or not holding p when c = None
File(p, c) == IF c = None THEN <<>> ELSE p :> c

IncludesCallsIn(dir, entry_name) ==
    {[fn |-> "validate_includes",
      files |-> (dir \o <<entry_name>> :> body)
                  @@ File(dir \o <<<<"x", "schema", "intent">>>>, c1)
                  @@ File(dir \o <<<<"schema", "intent">>>>, c2)
                  @@ File(dir \o <<<<"x", "flow", "intent">>>>, c3),
      entry_rel |-> dir \o <<entry_name>>,
      expected_feature |-> PkgX, expected_version |-> V10] :
        body \in EntryBodies, c1 \in SchemaContents \cup {None},
        c2 \in {None, <<Header(PkgX, "schema", V10)>>}, c3 \in FlowContents \cup {None}}

IncludesCalls ==
    IncludesCallsIn(<<>>, <<"x", "intent">>) \cup IncludesCallsIn(<<PkgX>>, <<"intent", "intent">>)
        \cup {[fn |-> "validate_includes",
                files |-> (<<<<"x", "intent">>>> :>
                              <<Header(PkgX, "intent", V10), StartLine,
                                EntryLine(key, RelPath(<<<<"x", key, "intent">>>>)), EndLine>>)
                          @@ (<<<<"x", key, "intent">>>> :>
                                <<Header(PkgX, IF same THEN key ELSE "flow", V10)>>),
                entry_rel |-> <<<<"x", "intent">>>>,
                expected_feature |-> PkgX, expected_version |-> V10] :
                  key \in {"intent", "mapping"} \cup IncludeKeys, same \in BOOLEAN}

InitIncludes == call \in IncludesCalls /\ ret = Pending /\ MainIdle

CallValidateIncludes ==
    /\ call.fn = "validate_includes"
    /\ ret = Pending
    /\ ret' = validate_includes(call.files, call.entry_rel,
                                call.expected_feature, call.expected_version)
    /\ UNCHANGED <<call, mainVars>>

SpecIncludes == InitIncludes /\ [][CallValidateIncludes]_vars

-----------------------------------------------------------------------------
(* main(): the registry on disk and the index document                     *)
(*                                                                         *)
(* fs = [exists, dirs]: whether registry/packages exists, and its package  *)
(* directories, each a function from the relative paths of its files to    *)
(* their content.  index = [exists, json, object, keys, packages]: whether *)
(* registry/index.json exists, parses, is an object, its top-level keys,   *)
(* and the value of "packages" as [list, items].  An item is               *)
(* [object, keys, name, version, entry], its values [str, s]: whether the  *)
(* value is a string, and the string; the string of "entry" is             *)
(* "registry/packages/<dir>/<rel>", held as [dir, rel].                    *)

StaleNames == <<<<"package", "json">>, <<"manifest", "ail">>, <<"manifest", "intent">>>>

\* The scan stopping at the first offending path
StaleManifests_First ==
    LET stale == {m \in (DOMAIN fs.dirs) \X {StaleNames[k] : k \in 1..Len(StaleNames)} :
                     <<m[2]>> \in DOMAIN fs.dirs[m[1]]}
    IN  IF stale = {} THEN {} ELSE {CHOOSE m \in stale : TRUE}

\* validate_no_stale_manifests: the offending (directory, name) pairs
StaleManifests ==
    {m \in (DOMAIN fs.dirs) \X {StaleNames[k] : k \in 1..Len(StaleNames)} :
        <<m[2]>> \in DOMAIN fs.dirs[m[1]]}

\* main() up to the call of validate_index_and_packages
main_prelude ==
    IF ~fs.exists THEN Fail("missing_packages_directory", <<>>)
    ELSE IF DOMAIN fs.dirs = {} THEN Fail("no_package_directory", <<>>)
    ELSE IF StaleManifests # {} THEN Fail("stale_manifests", <<StaleManifests>>)
    ELSE Return(<<>>)

\* validate_index_and_packages up to the for loop
load_index ==
    IF ~index.exists THEN Fail("missing_index", <<>>)
    ELSE IF ~index.json THEN Fail("invalid_json", <<>>)
    ELSE IF ~index.object THEN Fail("index_root_not_object", <<>>)
    ELSE IF "version" \notin index.keys THEN Fail("index_missing_key", <<"version">>)
    ELSE IF "packages" \notin index.keys THEN Fail("index_missing_key", <<"packages">>)
    ELSE IF ~index.packages.list \/ index.packages.items = <<>>
         THEN Fail("index_packages_not_array", <<>>)
    ELSE Return(<<>>)

ItemKeys == <<"name", "version", "entry">>

\* "registry/packages/<dir>/<rel>".endswith(".intent")
EntryEndsWithIntent(entry) == Len(Last(entry.rel)) >= 2 /\ Last(Last(entry.rel)) = "intent"

\* (ROOT / entry).exists()
EntryExists(entry) == entry.dir \in DOMAIN fs.dirs /\ entry.rel \in DOMAIN fs.dirs[entry.dir]

\* The body of the for loop up to the call of validate_entry_file
\* The per-item checks without the look-up in indexed_names
check_index_entry_AnyName(pkg, indexed) ==
    LET missing == {k \in 1..Len(ItemKeys) : ItemKeys[k] \notin pkg.keys}
    IN  IF ~pkg.object THEN Fail("index_item_not_object", <<>>)
        ELSE IF missing # {} THEN Fail("index_item_missing_key", <<ItemKeys[Min(missing)]>>)
        ELSE IF ~pkg.name.str \/ ~FEATURE_RE(pkg.name.s)
             THEN Fail("index_invalid_name", <<pkg.name>>)
        ELSE IF ~pkg.version.str \/ ~VERSION_RE(pkg.version.s)
             THEN Fail("index_invalid_version", <<pkg.name.s, pkg.version>>)
        ELSE IF ~pkg.entry.str \/ ~EntryEndsWithIntent(pkg.entry.s)
             THEN Fail("index_entry_not_intent", <<pkg.name.s>>)
        ELSE IF ~EntryExists(pkg.entry.s) THEN Fail("index_entry_missing", <<pkg.name.s>>)
        ELSE IF pkg.entry.s.dir # pkg.name.s THEN Fail("index_entry_prefix", <<pkg.name.s>>)
        ELSE Return(<<>>)

check_index_entry(pkg, indexed) ==
    LET missing == {k \in 1..Len(ItemKeys) : ItemKeys[k] \notin pkg.keys}
    IN  IF ~pkg.object THEN Fail("index_item_not_object", <<>>)
        ELSE IF missing # {} THEN Fail("index_item_missing_key", <<ItemKeys[Min(missing)]>>)
        ELSE IF ~pkg.name.str \/ ~FEATURE_RE(pkg.name.s)
             THEN Fail("index_invalid_name", <<pkg.name>>)
        ELSE IF pkg.name.s \in indexed THEN Fail("index_duplicate_name", <<pkg.name.s>>)
        ELSE IF ~pkg.version.str \/ ~VERSION_RE(pkg.version.s)
             THEN Fail("index_invalid_version", <<pkg.name.s, pkg.version>>)
        ELSE IF ~pkg.entry.str \/ ~EntryEndsWithIntent(pkg.entry.s)
             THEN Fail("index_entry_not_intent", <<pkg.name.s>>)
        ELSE IF ~EntryExists(pkg.entry.s) THEN Fail("index_entry_missing", <<pkg.name.s>>)
        ELSE IF pkg.entry.s.dir # pkg.name.s THEN Fail("index_entry_prefix", <<pkg.name.s>>)
        ELSE Return(<<>>)

\* The relative paths a package directory may hold, in the order of sorted() on
\* pathlib paths, for a one-word package name that sorts after "schema"
SortedPaths(n) ==
    << <<<<"manifest", "intent">>>>, <<<<"package", "json">>>>, <<<<"schema", "intent">>>>,
       <<<<n>>, <<"intent", "intent">>>>, <<<<n>>, <<"schema", "intent">>>>,
       <<<<n, "flow", "intent">>>>, <<<<n, "intent">>>>, <<<<n, "schema", "intent">>>>,
       <<<<"zz", "schema", "intent">>>> >>

\* fnmatch of the file name against "*.intent"
MatchesIntent(rel) == Len(Last(rel)) >= 2 /\ Last(Last(rel)) = "intent"
\* glob in place of rglob: the files directly under the package directory
SortedSources_TopLevel(name) ==
    SelectSeq(SortedPaths(name[1]),
              LAMBDA rel : rel \in DOMAIN fs.dirs[name] /\ MatchesIntent(rel) /\ Len(rel) = 1)

\* sorted((REGISTRY_PACKAGES / name).rglob("*.intent"))
SortedSources(name) ==
    SelectSeq(SortedPaths(name[1]),
              LAMBDA rel : rel \in DOMAIN fs.dirs[name] /\ MatchesIntent(rel))
\* The scan recording identities without looking for one already seen
scan_source_Overwrite(name, version, source, seen) ==
    LET v == validate_source_file(fs.dirs[name][source], source, name, version)
    IN  IF ~v.ok THEN v ELSE Return(<<v.val.feature, v.val.facet>>)

\* One iteration of the scan on `source`: the identity recorded, or the fail()
scan_source(name, version, source, seen) ==
    LET v == validate_source_file(fs.dirs[name][source], source, name, version)
        identity == <<v.val.feature, v.val.facet>>
    IN  IF ~v.ok THEN v
        ELSE IF identity \in DOMAIN seen
             THEN Fail("duplicate_identity", <<identity, seen[identity], source>>)
        ELSE Return(identity)
\* The entry compared by file name only
finish_package_NameOnly(entry, intents) ==
    IF Len(intents) # 1 THEN Fail("intent_file_count", <<>>)
    ELSE IF intents[1] # <<Last(entry.rel)>> THEN Fail("entry_not_intent_file", <<intents[1]>>)
    ELSE Return(<<>>)

\* The two checks after the scan
finish_package(entry, intents) ==
    IF Len(intents) # 1 THEN Fail("intent_file_count", <<>>)
    ELSE IF intents[1] # entry.rel THEN Fail("entry_not_intent_file", <<intents[1]>>)
    ELSE Return(<<>>)

\* The comparison asking only that every indexed name is a directory
compare_names_Subset(indexed) ==
    LET package_names == DOMAIN fs.dirs
        missing_on_disk == indexed \ package_names
    IN  IF missing_on_disk # {}
        THEN Fail("package_index_mismatch", <<<<"missing on disk", missing_on_disk>>>>)
        ELSE Return(Len(index.packages.items))

\* The comparison of the index with the directories on disk
compare_names(indexed) ==
    LET package_names == DOMAIN fs.dirs
        missing_in_index == package_names \ indexed
        missing_on_disk == indexed \ package_names
        details == (IF missing_in_index # {} THEN <<<<"missing in index", missing_in_index>>>>
                    ELSE <<>>)
                   \o (IF missing_on_disk # {} THEN <<<<"missing on disk", missing_on_disk>>>>
                       ELSE <<>>)
    IN  IF indexed # package_names THEN Fail("package_index_mismatch", details)
        ELSE Return(Len(index.packages.items))

-----------------------------------------------------------------------------
(* main(): the run *)

Item == index.packages.items[idx]

\* fail() printing the [FAIL] line without leaving the run
fail_Continue(r) ==
    /\ stdout' = Append(stdout, [tag |-> "FAIL", err |-> r.err, info |-> r.info])
    /\ pc' = pc

\* fail(): print the [FAIL] line and exit with status 1
fail(r) ==
    /\ stdout' = Append(stdout, [tag |-> "FAIL", err |-> r.err, info |-> r.info])
    /\ pc' = "exit1"

Main ==
    /\ pc = "main"
    /\ LET r == main_prelude
       IN  IF r.ok THEN pc' = "load_index" /\ UNCHANGED stdout ELSE fail(r)
    /\ UNCHANGED <<call, ret, fs, index, idx, indexed_names, sources,
                   seen_identities, intent_entry_files>>

LoadIndex ==
    /\ pc = "load_index"
    /\ LET r == load_index
       IN  IF r.ok THEN pc' = "package" /\ idx' = 1 /\ UNCHANGED stdout
           ELSE fail(r) /\ UNCHANGED idx
    /\ UNCHANGED <<call, ret, fs, index, indexed_names, sources,
                   seen_identities, intent_entry_files>>

CheckIndexEntry ==
    /\ pc = "package"
    /\ idx <= Len(index.packages.items)
    /\ LET r == check_index_entry(Item, indexed_names)
       IN  IF r.ok
           THEN /\ pc' = "entry_file"
                /\ indexed_names' = indexed_names \cup {Item.name.s}
                /\ UNCHANGED stdout
           ELSE fail(r) /\ UNCHANGED indexed_names
    /\ UNCHANGED <<call, ret, fs, index, idx, sources, seen_identities, intent_entry_files>>

ValidateEntryFile ==
    /\ pc = "entry_file"
    /\ LET r == validate_entry_file(fs.dirs[Item.name.s][Item.entry.s.rel], Item.entry.s.rel,
                                    Item.name.s, Item.version.s)
       IN  IF r.ok THEN pc' = "includes" /\ UNCHANGED stdout ELSE fail(r)
    /\ UNCHANGED <<call, ret, fs, index, idx, indexed_names, sources,
                   seen_identities, intent_entry_files>>

ValidateIncludes ==
    /\ pc = "includes"
    /\ LET r == validate_includes(fs.dirs[Item.name.s], Item.entry.s.rel,
                                  Item.name.s, Item.version.s)
       IN  IF r.ok
           THEN /\ pc' = "scan"
                /\ sources' = SortedSources(Item.name.s)
                /\ seen_identities' = <<>>
                /\ intent_entry_files' = <<>>
                /\ UNCHANGED stdout
           ELSE fail(r) /\ UNCHANGED <<sources, seen_identities, intent_entry_files>>
    /\ UNCHANGED <<call, ret, fs, index, idx, indexed_names>>

ScanSource ==
    /\ pc = "scan"
    /\ sources # <<>>
    /\ LET source == Head(sources)
           r == scan_source(Item.name.s, Item.version.s, source, seen_identities)
       IN  IF r.ok
           THEN /\ seen_identities' = seen_identities @@ (r.val :> source)
                /\ intent_entry_files' = IF r.val[2] = <<"intent">>
                                         THEN Append(intent_entry_files, source)
                                         ELSE intent_entry_files
                /\ sources' = Tail(sources)
                /\ UNCHANGED <<pc, stdout>>
           ELSE fail(r) /\ UNCHANGED <<sources, seen_identities, intent_entry_files>>
    /\ UNCHANGED <<call, ret, fs, index, idx, indexed_names>>

FinishPackage ==
    /\ pc = "scan"
    /\ sources = <<>>
    /\ LET r == finish_package(Item.entry.s, intent_entry_files)
       IN  IF r.ok THEN pc' = "package" /\ idx' = idx + 1 /\ UNCHANGED stdout
           ELSE fail(r) /\ UNCHANGED idx
    /\ UNCHANGED <<call, ret, fs, index, indexed_names, sources,
                   seen_identities, intent_entry_files>>

CompareNames ==
    /\ pc = "package"
    /\ idx > Len(index.packages.items)
    /\ LET r == compare_names(indexed_names)
       IN  IF r.ok
           THEN /\ stdout' = Append(stdout, [tag |-> "OK", count |-> r.val])
                /\ pc' = "exit0"
           ELSE fail(r)
    /\ UNCHANGED <<call, ret, fs, index, idx, indexed_names, sources,
                   seen_identities, intent_entry_files>>

Next ==
    \/ Main
    \/ LoadIndex
    \/ CheckIndexEntry
    \/ ValidateEntryFile
    \/ ValidateIncludes
    \/ ScanSource
    \/ FinishPackage
    \/ CompareNames

-----------------------------------------------------------------------------
(* The registries main() is run on: package directories x and y, x with up *)
(* to MaxFiles of the files below, and an index of one or two items.       *)

PkgY == <<"y">>

IncludesBlock(key, rel) == <<StartLine, EntryLine(key, rel), EndLine>>

EntryContents(name) ==
    {<<Header(name, "intent", V10)>>,
     <<Header(name, "intent", V10)>>
        \o IncludesBlock("schema", RelPath(<<name \o <<"schema", "intent">>>>)),
     <<Header(name, "intent", V10)>> \o IncludesBlock("schema", RelPath(<<<<"schema", "intent">>>>)),
     <<Header(name, "schema", V10)>>}

FacetContents(name, facet) ==
    {<<Header(name, facet, V10)>>, <<Header(name, facet, <<"2", "0">>)>>,
     <<Header(name, "intent", V10)>>, <<Header(name, facet, V10), TextLine({"FEATURE:"})>>}

\* The contents the file at the k-th of SortedPaths(n) may have
ContentsAt(n, k) ==
    CASE k = 1 -> {}
      [] k = 2 -> {<<>>}
      [] k = 3 -> {<<Header(<<n>>, "schema", V10)>>, <<Header(<<"schema">>, "intent", V10)>>}
      [] k \in {4, 7} -> EntryContents(<<n>>)
      [] k \in {5, 8} -> FacetContents(<<n>>, "schema")
      [] k = 6 -> {<<Header(<<n>>, "flow", V10)>>, <<Header(<<n>>, "schema", V10)>>}
      [] k = 9 -> {<<Header(<<"zz">>, "schema", V10)>>, <<Header(<<n>>, "schema", V10)>>}

RECURSIVE DirsFrom(_, _, _)
\* The directories of package n holding at most `budget` of the paths from the k-th on
DirsFrom(n, k, budget) ==
    IF k > Len(SortedPaths(n)) \/ budget = 0 THEN {<<>>}
    ELSE DirsFrom(n, k + 1, budget)
         \cup {(SortedPaths(n)[k] :> c) @@ d : c \in ContentsAt(n, k),
                                               d \in DirsFrom(n, k + 1, budget - 1)}

DirsX == DirsFrom("x", 1, MaxFiles)

DirsY ==
    {<<<<"y", "intent">>>> :> <<Header(PkgY, "intent", V10)>>,
     (<<<<"y", "intent">>>> :> (<<Header(PkgY, "intent", V10)>>
                                 \o IncludesBlock("flow", RelPath(<<<<"y", "flow", "intent">>>>))))
        @@ (<<<<"y", "flow", "intent">>>> :> <<Header(PkgY, "flow", V10)>>),
     (<<<<"y", "intent">>>> :> <<Header(PkgY, "intent", V10)>>)
        @@ (<<PkgY, <<"schema", "intent">>>> :> <<Header(PkgY, "schema", <<"1", "00">>)>>),
     (<<<<"y", "intent">>>> :> <<Header(PkgY, "intent", V10)>>)
        @@ (<<<<"manifest", "intent">>>> :> <<Header(PkgY, "schema", V10)>>)}

Str(s) == [str |-> TRUE, s |-> s]

IndexItem(name, version, rel) ==
    [object |-> TRUE, keys |-> {"name", "version", "entry"}, name |-> Str(name),
     version |-> Str(version), entry |-> Str([dir |-> name, rel |-> rel])]

ItemsX == {IndexItem(PkgX, V10, rel) :
              rel \in {<<<<"x", "intent">>>>, <<PkgX, <<"intent", "intent">>>>,
                       <<<<"x", "schema", "intent">>>>}}

ItemY == IndexItem(PkgY, V10, <<<<"y", "intent">>>>)

IndexDocument(items) ==
    [exists |-> TRUE, json |-> TRUE, object |-> TRUE, keys |-> {"version", "packages"},
     version |-> Str(<<"1">>), packages |-> [list |-> TRUE, items |-> items]]

Indexes ==
    {IndexDocument(items) :
        items \in {<<x>> : x \in ItemsX} \cup {<<x, ItemY>> : x \in ItemsX}
                  \cup {<<ItemY, x>> : x \in ItemsX} \cup {<<ItemY>>}}

\* A registry whose packages directory holds dx as x and dy as y (None: no such directory)
Registry(dx, dy) ==
    [exists |-> TRUE,
     dirs |-> (IF dx = None THEN <<>> ELSE PkgX :> dx[1])
              @@ (IF dy = None THEN <<>> ELSE PkgY :> dy[1])]

Registries ==
    {Registry(dx, dy) : dx \in {None} \cup {<<d>> : d \in DirsX},
                        dy \in {None} \cup {<<d>> : d \in DirsY}}

\* The item of x names x.intent or a file that exists
EntryPlausible ==
    \A k \in 1..Len(index.packages.items) :
        LET entry == index.packages.items[k].entry.s
        IN  entry.dir = PkgX => (EntryExists(entry) \/ entry.rel = <<<<"x", "intent">>>>)

\* A JSON value that is not a string
NotStr == [str |-> FALSE]

ItemWith(name, version, entry) ==
    [object |-> TRUE, keys |-> {"name", "version", "entry"}, name |-> name,
     version |-> version, entry |-> entry]

EntryAt(dir, rel) == Str([dir |-> dir, rel |-> rel])

ItemX == IndexItem(PkgX, V10, <<<<"x", "intent">>>>)

\* Index items that break the schema of an item or name a file outside the package
OddItems ==
    LET entry == EntryAt(PkgX, <<<<"x", "intent">>>>)
    IN  {[object |-> FALSE],
         [object |-> TRUE, keys |-> {}],
         [object |-> TRUE, keys |-> {"version", "entry"}, version |-> Str(V10), entry |-> entry],
         [object |-> TRUE, keys |-> {"name", "entry"}, name |-> Str(PkgX), entry |-> entry],
         [object |-> TRUE, keys |-> {"name", "version"}, name |-> Str(PkgX), version |-> Str(V10)],
         ItemWith(NotStr, Str(V10), entry),
         ItemWith(Str(<<"Bad">>), Str(V10), EntryAt(<<"Bad">>, <<<<"x", "intent">>>>)),
         ItemWith(Str(<<"x\n">>), Str(V10), EntryAt(<<"x\n">>, <<<<"x", "intent">>>>)),
         ItemWith(Str(PkgX), NotStr, entry),
         ItemWith(Str(PkgX), Str(<<"1">>), entry),
         ItemWith(Str(PkgX), Str(<<"1", "0", "0">>), entry),
         ItemWith(Str(PkgX), Str(<<"1", "0\n">>), entry),
         ItemWith(Str(PkgX), Str(V10), NotStr),
         ItemWith(Str(PkgX), Str(V10), EntryAt(PkgX, <<<<"x", "txt">>>>)),
         ItemWith(Str(PkgX), Str(V10), EntryAt(PkgX, <<<<"x", "flow", "intent">>>>)),
         ItemWith(Str(PkgX), Str(V10), EntryAt(PkgY, <<<<"y", "intent">>>>)),
         ItemWith(Str(PkgX), Str(V10), EntryAt(<<"zz">>, <<<<"x", "intent">>>>))}

PkgWeather == <<"weather">>

ItemWeather == IndexItem(PkgWeather, V10, <<<<"weather", "intent">>>>)

OddItemSeqs ==
    UNION {{<<o>>, <<ItemX, o>>, <<o, ItemY>>, <<ItemY, o>>} : o \in OddItems}
        \cup {<<ItemX, ItemX>>, <<ItemY, ItemY>>, <<ItemX, ItemY, ItemX>>, <<ItemY, ItemX, ItemY>>,
               <<ItemX, IndexItem(PkgX, V10, <<PkgX, <<"intent", "intent">>>>)>>,
               <<ItemWeather>>, <<ItemX, ItemWeather>>, <<ItemWeather, ItemX>>,
               <<ItemX>>, <<ItemY>>, <<ItemX, ItemY>>, <<ItemY, ItemX>>}

\* Index documents that are missing, not JSON, or break the schema of the document
OddDocuments ==
    LET doc == IndexDocument(<<ItemX>>)
    IN  {[doc EXCEPT !.exists = FALSE],
         [doc EXCEPT !.json = FALSE],
         [doc EXCEPT !.object = FALSE],
         [doc EXCEPT !.keys = {}],
         [doc EXCEPT !.keys = {"packages"}],
         [doc EXCEPT !.keys = {"version"}],
         [doc EXCEPT !.packages = [list |-> FALSE, items |-> <<>>]],
         [doc EXCEPT !.packages = [list |-> TRUE, items |-> <<>>]],
         [doc EXCEPT !.version = NotStr],
         [IndexDocument(<<ItemX, ItemY>>) EXCEPT !.version = NotStr],
         [IndexDocument(<<ItemWeather>>) EXCEPT !.version = NotStr]}

OddIndexes == OddDocuments \cup {IndexDocument(items) : items \in OddItemSeqs}

\* A package directory with an entry file that includes a schema file
GoodDir(name) ==
    (<<name \o <<"intent">>>> :>
        (<<Header(name, "intent", V10)>>
            \o IncludesBlock("schema", RelPath(<<name \o <<"schema", "intent">>>>))))
    @@ (<<name \o <<"schema", "intent">>>> :> <<Header(name, "schema", V10)>>)

TwoBlocks == <<StartLine, EndLine, StartLine, EndLine>>

\* Directories of x: valid, with a stale manifest, with a bad source file, with two
\* INCLUDES blocks in the schema file or in the entry file
OddDirsX ==
    {GoodDir(PkgX),
     GoodDir(PkgX) @@ (<<<<"package", "json">>>> :> <<>>) @@ (<<<<"manifest", "ail">>>> :> <<>>),
     (<<<<"manifest", "ail">>>> :> <<>>)
        @@ (<<<<"x", "intent">>>> :> <<Header(PkgX, "intent", <<"2", "0">>)>>),
     (<<<<"x", "intent">>>> :> <<Header(PkgX, "intent", V10)>>)
        @@ (<<<<"x", "schema", "intent">>>> :> <<Header(PkgX, "schema", <<"2", "0">>)>>),
     (<<<<"x", "schema", "intent">>>> :> (<<Header(PkgX, "schema", V10)>> \o TwoBlocks))
        @@ GoodDir(PkgX),
     <<<<"x", "intent">>>> :> (<<Header(PkgX, "intent", V10)>> \o TwoBlocks)}

OddDirsY ==
    {<<<<"y", "intent">>>> :> <<Header(PkgY, "intent", V10)>>,
     (<<<<"y", "intent">>>> :> <<Header(PkgY, "intent", V10)>>)
        @@ (<<<<"manifest", "intent">>>> :> <<Header(PkgY, "schema", V10)>>),
     <<<<"y", "intent">>>> :> <<Header(PkgY, "intent", V10), TextLine({"FACET:"})>>}

\* Registries of x, y and weather, and the one without a packages directory
OddRegistries ==
    {[exists |-> FALSE, dirs |-> <<>>]}
        \cup {[exists |-> TRUE,
               dirs |-> (IF dx = None THEN <<>> ELSE PkgX :> dx[1])
                        @@ (IF dy = None THEN <<>> ELSE PkgY :> dy[1])
                        @@ (IF w THEN PkgWeather :> GoodDir(PkgWeather) ELSE <<>>)] :
                 dx \in {None} \cup {<<d>> : d \in OddDirsX},
                 dy \in {None} \cup {<<d>> : d \in OddDirsY},
                 w \in BOOLEAN}

Init ==
    /\ call = [fn |-> "main"]
    /\ ret = Pending
    /\ \/ fs \in Registries /\ index \in Indexes /\ EntryPlausible
       \/ fs \in OddRegistries /\ index \in OddIndexes
    /\ pc = "main"
    /\ idx = 0
    /\ indexed_names = {}
    /\ sources = <<>>
    /\ seen_identities = <<>>
    /\ intent_entry_files = <<>>
    /\ stdout = <<>>

Spec == Init /\ [][Next]_vars

-----------------------------------------------------------------------------
(* The grammars as the specification words them, for stating the claims *)

\* A dot-separated sequence of non-empty lowercase-alphanumeric segments
IsFeature(feature) == Len(feature) >= 1 /\ \A i \in 1..Len(feature) : feature[i] \in LowerAlnum

\* digits.digits
IsVersion(version) == Len(version) = 2 /\ \A i \in 1..2 : version[i] \in Digits

Returned == ret # Pending

Identity(feature, facet) == [feature |-> feature, facet |-> facet]

-----------------------------------------------------------------------------
(* Claims about derive_identity_from_relpath (SpecDerive) *)

\* <stem>.intent as one path segment
IsFlatIntent(rel_path) ==
    Len(rel_path) = 1 /\ Len(rel_path[1]) >= 2 /\ Last(rel_path[1]) = "intent"

\* The split P2 describes
FlatSplit(stem) ==
    IF Last(stem) \in FacetSet THEN Identity(Front(stem), <<Last(stem)>>)
    ELSE Identity(stem, <<"intent">>)

\* C3 as stated: every single-segment path <stem>.intent yields the pair (stem without
\* its last dot-segment, last dot-segment) when that segment is a facet name, and
\* (whole stem, intent) otherwise.
C3_FlatSplitEveryStem ==
    (Returned /\ call.fn = "derive_identity_from_relpath" /\ IsFlatIntent(call.rel_path))
        => ret = Return(FlatSplit(Front(call.rel_path[1])))

\* C3 as amended: for a single-segment path <stem>.intent the result, whenever one is
\* returned, is the pair of P2's split; it is returned whenever the feature of that split
\* matches the feature grammar; a stem that is a bare facet name is rejected.
C3_FlatSplit ==
    (Returned /\ call.fn = "derive_identity_from_relpath" /\ IsFlatIntent(call.rel_path))
        => LET stem == Front(call.rel_path[1])
           IN  /\ ret.ok => ret.val = FlatSplit(stem)
               /\ IsFeature(FlatSplit(stem).feature) => ret.ok
               /\ (Len(stem) = 1 /\ stem[1] \in FacetSet) => ~ret.ok

C3_Witness ==
    /\ call.fn = "derive_identity_from_relpath"
    /\ call.rel_path = <<<<"my", "module", "intent">>>>
    /\ ret = Return(Identity(<<"my", "module">>, <<"intent">>))

PathErrors == {"path_suffix", "flat_filename", "derived_feature", "derived_facet"}

\* C4: a path of more than one segment yields (directory segments joined by '.', file
\* stem) and fails with an invalid-path error when the extension is not .intent, the
\* joined feature does not match the feature grammar or the stem is not a facet.
C4_NestedDerivation ==
    (Returned /\ call.fn = "derive_identity_from_relpath" /\ Len(call.rel_path) > 1)
        => LET name == Last(call.rel_path)
               feature == Join(Front(call.rel_path))
           IN  IF /\ Len(name) = 2 /\ name[2] = "intent" /\ name[1] \in FacetSet
                  /\ IsFeature(feature)
               THEN ret = Return(Identity(feature, <<name[1]>>))
               ELSE ~ret.ok /\ ret.err \in PathErrors

-----------------------------------------------------------------------------
(* Claims about parse_header (SpecHeader) *)

HasLegacyToken(raw) == \E l \in 1..Len(raw) : LegacyIn(raw[l]) # {}

\* C5: a content holding a legacy token on any line fails with the legacy-token error
\* naming a token of the content, whether or not line 1 is a valid header; the
\* header-grammar error is never reported for it.
C5_LegacyRejection ==
    (Returned /\ call.fn = "parse_header" /\ HasLegacyToken(call.raw))
        => /\ ~ret.ok
           /\ ret.err = "legacy_token"
           /\ \E l \in 1..Len(call.raw) : ret.info[1] \in LegacyIn(call.raw[l])

C5_Witness ==
    /\ call.fn = "parse_header"
    /\ Len(call.raw) = 2
    /\ call.raw[1] = GoodHeader
    /\ LegacyIn(call.raw[2]) = {"FACET:", ":::AIL_METADATA"}
    /\ ret = Fail("legacy_token", <<":::AIL_METADATA">>)

HeaderValue(line) ==
    [feature |-> line.feature, facet |-> <<line.facet>>, version |-> line.version]

GrammaticalFields(line) ==
    /\ line.t = "header"
    /\ line.kw = "AIM:"
    /\ IsFeature(line.feature)
    /\ line.facet \in FacetSet
    /\ IsVersion(line.version)

\* C6 as stated: without legacy tokens, parse_header returns (feature, facet, version)
\* exactly when line 1 is 'AIM: <feature>#<facet>@<version>', and fails with the
\* header-grammar error in every other case.
C6_HeaderExactLine ==
    (Returned /\ call.fn = "parse_header" /\ ~HasLegacyToken(call.raw))
        => IF /\ call.raw # <<>>
              /\ GrammaticalFields(call.raw[1])
              /\ call.raw[1].ws = 1 /\ ~call.raw[1].lead /\ ~call.raw[1].trail
           THEN ret = Return(HeaderValue(call.raw[1]))
           ELSE ret = Fail("header_grammar", <<>>)

\* C6 as amended: without legacy tokens, parse_header returns (feature, facet, version)
\* exactly when line 1, with its leading and trailing whitespace removed, is 'AIM:', one
\* or more whitespace characters, and <feature>#<facet>@<version>; in every other case
\* it fails with the header-grammar error.
C6_HeaderGrammar ==
    (Returned /\ call.fn = "parse_header" /\ ~HasLegacyToken(call.raw))
        => IF call.raw # <<>> /\ GrammaticalFields(call.raw[1]) /\ call.raw[1].ws >= 1
           THEN ret = Return(HeaderValue(call.raw[1]))
           ELSE ret = Fail("header_grammar", <<>>)

C6_Witness ==
    /\ call.fn = "parse_header"
    /\ Len(call.raw) = 2
    /\ call.raw[1] = HeaderLine(TRUE, "AIM:", 2, <<"my", "schema">>, "mapping", <<"01", "00">>, TRUE)
    /\ call.raw[2] = GoodHeader
    /\ ret = Return([feature |-> <<"my", "schema">>, facet |-> <<"mapping">>,
                     version |-> <<"01", "00">>])

-----------------------------------------------------------------------------
(* Claims about validate_source_file (SpecSource) *)

\* C2: for every feature of the feature grammar and every facet, a file laid out under
\* the flat convention or the nested convention whose header declares exactly that
\* (feature, facet) is accepted by validate_source_file with that identity, also when
\* the feature's last segment is a facet name.
C2_RoundTrip ==
    \A feature \in Features, facet \in FacetSet :
        ( /\ Returned
          /\ call.fn = "validate_source_file"
          /\ IsFeature(feature)
          /\ call.raw = <<Header(feature, facet, <<"1", "0">>)>>
          /\ call.rel_path \in Layouts(feature, facet)
          /\ call.expected_feature = None /\ call.expected_version = None )
        => ret = Return([feature |-> feature, facet |-> <<facet>>, version |-> <<"1", "0">>])

\* C7: validate_source_file returns the header's (feature, facet, version) exactly when
\* the header identity equals the path-derived identity and, when supplied, the
\* expected feature equals the header feature and the expected version is the same
\* string as the header version; otherwise it fails, an identity mismatch being
\* reported in preference to a package feature or version mismatch.
C7_SourceValidatorOutcome ==
    (Returned /\ call.fn = "validate_source_file")
        => LET h == parse_header(call.raw)
               p == derive_identity_from_relpath(call.rel_path)
               same == /\ h.val.feature = p.val.feature
                       /\ h.val.facet = p.val.facet
               expected == /\ call.expected_feature \in {None, h.val.feature}
                           /\ call.expected_version \in {None, h.val.version}
           IN  /\ ret.ok <=> (h.ok /\ p.ok /\ same /\ expected)
               /\ ret.ok => ret.val = h.val
               /\ (h.ok /\ p.ok /\ ~same)
                     => ret.err \in {"path_feature_mismatch", "path_facet_mismatch"}
               /\ (h.ok /\ p.ok /\ same /\ ~expected)
                     => ret.err \in {"package_feature_mismatch", "package_version_mismatch"}

\* '1.0' expected against a header that says '1.00', identity and feature agreeing
C7_Witness ==
    /\ call.fn = "validate_source_file"
    /\ call.raw = <<Header(<<"x">>, "schema", <<"1", "00">>)>>
    /\ call.rel_path = <<<<"x">>, <<"schema", "intent">>>>
    /\ call.expected_feature = <<"x">>
    /\ call.expected_version = <<"1", "0">>
    /\ ret = Fail("package_version_mismatch", <<<<"1", "00">>, <<"1", "0">>>>)

-----------------------------------------------------------------------------
(* Claims about validate_includes (SpecIncludes) *)

\* The entry file's INCLUDES block holds at least one include, and this is its first
FirstInclude == call.files[call.entry_rel][3]

HasIncludes ==
    /\ call.fn = "validate_includes"
    /\ Len(call.files[call.entry_rel]) >= 4
    /\ call.files[call.entry_rel][3].t = "entry"
    /\ ScanLines(call.files[call.entry_rel], 1, FALSE, <<>>).ok

\* The file the first include points to, when the path stays inside the package
FirstTarget == Front(call.entry_rel) \o FirstInclude.rel.parts

HasParentRef(rel) == \E k \in 1..Len(rel.parts) : rel.parts[k] = ParentRef

\* The first include's target exists and its header declares a facet
TargetDeclares(facet) ==
    /\ ~FirstInclude.rel.abs
    /\ ~HasParentRef(FirstInclude.rel)
    /\ FirstTarget \in DOMAIN call.files
    /\ call.files[FirstTarget] # <<>>
    /\ GrammaticalFields(call.files[FirstTarget][1])
    /\ call.files[FirstTarget][1].facet = facet

\* The include 'schema: "x.schema.intent"' of a flat entry file, alone in its block
IsSchemaInclude ==
    /\ HasIncludes
    /\ call.entry_rel = <<<<"x", "intent">>>>
    /\ Len(call.files[call.entry_rel]) = 4
    /\ FirstInclude = EntryLine("schema", RelPath(<<<<"x", "schema", "intent">>>>))

SchemaTargetValid ==
    /\ IsSchemaInclude
    /\ FirstTarget \in DOMAIN call.files
    /\ call.files[FirstTarget] = <<Header(PkgX, "schema", V10)>>

C8_Passes == (Returned /\ SchemaTargetValid) => ret.ok

\* C8 as stated: the include schema: "x.schema.intent" whose target declares facet schema
\* for the same feature and version passes; an include whose target declares a facet
\* other than the include key fails with the include-facet-mismatch error; an include
\* whose path leaves the package through a parent reference, as '../x' does, fails with
\* the path-traversal error.
C8_IncludeResolutionAsStated ==
    /\ C8_Passes
    /\ (Returned /\ HasIncludes /\ EndsWithIntent(FirstInclude.rel)
          /\ \E facet \in FacetSet \ {FirstInclude.key} : TargetDeclares(facet))
         => ret.err = "include_facet_mismatch"
    /\ (Returned /\ HasIncludes /\ ~FirstInclude.rel.abs /\ HasParentRef(FirstInclude.rel))
         => ret.err = "includes_parent_traversal"

\* C8 as amended: the include schema: "x.schema.intent" whose target declares facet
\* schema for the same feature and version passes; an include whose target declares a
\* facet other than the include key fails, with the include-facet-mismatch error when
\* the target is itself a valid source file of the package and with the target's own
\* source-validation error otherwise; an include whose path is relative, ends in
\* .intent and holds a parent reference ('../x.intent') fails with the path-traversal
\* error, while '../x', which does not end in .intent, fails with the wrong-extension
\* error.
C8_IncludeResolution ==
    /\ C8_Passes
    /\ (Returned /\ HasIncludes /\ EndsWithIntent(FirstInclude.rel)
          /\ \E facet \in FacetSet \ {FirstInclude.key} : TargetDeclares(facet))
         => LET v == validate_source_file(call.files[FirstTarget], FirstTarget,
                                          call.expected_feature, call.expected_version)
            IN  /\ ~ret.ok
                /\ v.ok => ret.err = "include_facet_mismatch"
                /\ ~v.ok => ret = v
    /\ (Returned /\ HasIncludes /\ ~FirstInclude.rel.abs /\ HasParentRef(FirstInclude.rel))
         => IF EndsWithIntent(FirstInclude.rel)
            THEN ret.err = "includes_parent_traversal"
            ELSE ret.err = "includes_wrong_extension"

\* The key schema on a valid flow file: the include-facet-mismatch error
C8_Witness ==
    /\ HasIncludes
    /\ FirstInclude = EntryLine("schema", RelPath(<<<<"x", "flow", "intent">>>>))
    /\ TargetDeclares("flow")
    /\ ret.err = "include_facet_mismatch"

\* The entry file given to validate_includes
EntryFile == call.files[call.entry_rel]

StartPositions(lines) == {i \in 1..Len(lines) : lines[i].t = "start"}

\* No line from a to b starts an INCLUDES declaration
PlainLines(lines, a, b) == \A i \in a..b : lines[i].t \notin {"start", "decl"}

\* The lines strictly between a and b are blank lines and entry lines with distinct keys
GoodEntries(lines, a, b) ==
    /\ \A i \in (a + 1)..(b - 1) : lines[i].t = "blank" \/ INCLUDES_ENTRY_RE(lines[i])
    /\ \A i, j \in (a + 1)..(b - 1) :
          (lines[i].t = "entry" /\ lines[j].t = "entry" /\ lines[i].key = lines[j].key) => i = j

\* Line s is reached with one well-formed block opened and closed before it
ClosedBlockBefore(lines, s) ==
    \E s1 \in 1..(s - 1) : \E e1 \in (s1 + 1)..(s - 1) :
        /\ lines[s1].t = "start" /\ lines[e1].t = "end"
        /\ PlainLines(lines, 1, s1 - 1)
        /\ GoodEntries(lines, s1, e1)
        /\ PlainLines(lines, e1 + 1, s - 1)

\* Line s is reached inside a well-formed block that is still open
OpenBlockBefore(lines, s) ==
    \E s1 \in 1..(s - 1) :
        /\ lines[s1].t = "start"
        /\ PlainLines(lines, 1, s1 - 1)
        /\ GoodEntries(lines, s1, s)

\* C18 as stated: every entry file holding a second INCLUDES block start line fails with
\* the multiple-INCLUDES-blocks error, wherever that second start line is placed.
C18_SecondStartAnywhere ==
    (Returned /\ call.fn = "validate_includes" /\ Cardinality(StartPositions(EntryFile)) >= 2)
        => ret = Fail("multiple_includes_blocks", <<>>)

\* C18 as amended: an entry file in which a second INCLUDES block start line follows a
\* first block that has closed, the lines before it being well-formed, fails with the
\* multiple-INCLUDES-blocks error; a start line placed before the first block's closing
\* marker is read as an entry of the open block and fails with the
\* malformed-INCLUDES-entry error.
C18_MultipleBlocks ==
    (Returned /\ call.fn = "validate_includes")
        => \A s \in StartPositions(EntryFile) :
              /\ ClosedBlockBefore(EntryFile, s) => ret = Fail("multiple_includes_blocks", <<>>)
              /\ OpenBlockBefore(EntryFile, s)
                    => ret = Fail("malformed_includes_entry", <<StartLine>>)

\* A second block after a closed first block and a line of text
C18_Witness ==
    /\ call.fn = "validate_includes"
    /\ Len(EntryFile) = 8
    /\ StartPositions(EntryFile) = {2, 6}
    /\ ClosedBlockBefore(EntryFile, 6)
    /\ ret = Fail("multiple_includes_blocks", <<>>)

\* The pairs of entry lines of one block that give the same key
DupPairs(lines) ==
    {p \in (1..Len(lines)) \X (1..Len(lines)) :
        /\ p[1] < p[2]
        /\ lines[p[1]].t = "entry" /\ lines[p[2]].t = "entry"
        /\ lines[p[1]].key = lines[p[2]].key
        /\ \E s \in 1..(p[1] - 1) :
              lines[s].t = "start" /\ \A k \in (s + 1)..p[2] : lines[k].t # "end"}

\* C20 as stated: an INCLUDES block in which the same facet key appears on two entry
\* lines fails with the duplicate-INCLUDES-key error naming that key.
C20_DuplicateKeyAlways ==
    (Returned /\ call.fn = "validate_includes" /\ DupPairs(EntryFile) # {})
        => \E p \in DupPairs(EntryFile) :
              ret = Fail("duplicate_includes_key", <<EntryFile[p[1]].key>>)

\* The block is well-formed up to the second line of the pair, which repeats a key
ReachedDup(lines, p) ==
    /\ INCLUDES_ENTRY_RE(lines[p[2]])
    /\ \E s1 \in 1..(p[1] - 1) :
          /\ lines[s1].t = "start"
          /\ PlainLines(lines, 1, s1 - 1)
          /\ GoodEntries(lines, s1, p[2])

\* C20 as amended: an INCLUDES block in which the same facet key appears on two entry
\* lines, every line of the file before the second of them being well-formed, fails
\* with the duplicate-INCLUDES-key error naming that key, also when both lines give the
\* same path, and whatever the include paths and the target files are.
C20_DuplicateKey ==
    (Returned /\ call.fn = "validate_includes")
        => \A p \in DupPairs(EntryFile) :
              ReachedDup(EntryFile, p)
                  => ret = Fail("duplicate_includes_key", <<EntryFile[p[1]].key>>)

\* The key schema twice, first on a path that leaves the package
C20_Witness ==
    /\ call.fn = "validate_includes"
    /\ Len(EntryFile) = 5
    /\ EntryFile[3] = EntryLine("schema", RelPath(<<ParentRef, <<"x">>>>))
    /\ EntryFile[4] = EntryLine("schema", RelPath(<<<<"x", "schema", "intent">>>>))
    /\ DupPairs(EntryFile) = {<<3, 4>>}
    /\ ret = Fail("duplicate_includes_key", <<"schema">>)

-----------------------------------------------------------------------------
(* Claims about a run of main() (Spec) *)

Validated == pc = "exit0"

Ended == pc \in {"exit0", "exit1"}

Failure == stdout[Len(stdout)]

Items == index.packages.items

\* The .intent files found recursively under packages/<d>
SourceFiles(d) == {rel \in DOMAIN fs.dirs[d] : MatchesIntent(rel)}

\* What the first line of packages/<d>/<rel> declares, None when it is no header
Declared(d, rel) ==
    LET raw == fs.dirs[d][rel]
    IN  IF raw # <<>> /\ GrammaticalFields(raw[1]) /\ raw[1].ws >= 1
        THEN HeaderValue(raw[1]) ELSE None

\* C1: when main() reaches the [OK] line, every .intent file under every indexed package
\* directory has a header identity equal to its path-derived identity, a header feature
\* equal to the package name and a header version textually equal to the index version,
\* and no two such files of one package share a (feature, facet) identity.
C1_Soundness ==
    Validated =>
        \A k \in 1..Len(Items) :
            LET name == Items[k].name.s
                version == Items[k].version.s
            IN  /\ name \in DOMAIN fs.dirs
                /\ \A rel \in SourceFiles(name) :
                      LET h == parse_header(fs.dirs[name][rel])
                          p == derive_identity_from_relpath(rel)
                      IN  /\ h.ok /\ p.ok
                          /\ h.val.feature = p.val.feature /\ h.val.facet = p.val.facet
                          /\ h.val.feature = name
                          /\ h.val.version = version
                /\ \A r1, r2 \in SourceFiles(name) :
                      (r1 # r2 /\ Declared(name, r1) # None /\ Declared(name, r2) # None)
                          => <<Declared(name, r1).feature, Declared(name, r1).facet>>
                                 # <<Declared(name, r2).feature, Declared(name, r2).facet>>

\* Two packages validated, x with an entry, a nested schema file and a flow file
C1_Witness ==
    /\ Validated
    /\ stdout = <<[tag |-> "OK", count |-> 2]>>
    /\ SourceFiles(PkgX) = {<<<<"x", "intent">>>>, <<PkgX, <<"schema", "intent">>>>,
                            <<<<"x", "flow", "intent">>>>}

\* Two .intent files of packages/<d> declare the same (feature, facet, version)
SameDeclaration(d, r1, r2) ==
    /\ r1 # r2
    /\ Declared(d, r1) # None
    /\ Declared(d, r1) = Declared(d, r2)

HasTwins(d) == \E r1, r2 \in SourceFiles(d) : SameDeclaration(d, r1, r2)

\* C9 as stated: whenever two source files of one package directory declare the same
\* (feature, facet, version), the run fails with the duplicate-identity error, which
\* names both relative paths.
C9_TwinsAlwaysDuplicateError ==
    (Ended /\ \E d \in DOMAIN fs.dirs : HasTwins(d))
        => /\ pc = "exit1"
           /\ Failure.err = "duplicate_identity"
           /\ \E d \in DOMAIN fs.dirs : SameDeclaration(d, Failure.info[2], Failure.info[3])

\* The scan is about to visit a file whose declaration an already visited file of the
\* package shares, and that is a valid source file of the package
AtSecondTwin(prev) ==
    /\ pc = "scan"
    /\ sources # <<>>
    /\ SameDeclaration(Item.name.s, prev, Head(sources))
    /\ validate_source_file(fs.dirs[Item.name.s][Head(sources)], Head(sources),
                            Item.name.s, Item.version.s).ok

\* The files the scan in progress has recorded
ScannedFiles ==
    IF pc = "scan" THEN {seen_identities[i] : i \in DOMAIN seen_identities} ELSE {}

\* C9 as amended: whenever two source files of one package directory declare the same
\* (feature, facet, version), the run never validates; and when the scan of the package
\* reaches the second of them, both being valid source files of the package, the run
\* fails there with the duplicate-identity error naming both relative paths, first the
\* one visited first.
C9_Uniqueness ==
    /\ [](Validated => \A d \in DOMAIN fs.dirs : ~HasTwins(d))
    /\ [][\A prev \in ScannedFiles :
            AtSecondTwin(prev)
                => /\ pc' = "exit1"
                   /\ stdout' = <<[tag |-> "FAIL", err |-> "duplicate_identity",
                                   info |-> <<<<Item.name.s, Declared(Item.name.s, prev).facet>>,
                                              prev, Head(sources)>>]>>]_vars

C9_Witness ==
    /\ pc = "exit1"
    /\ Failure.err = "duplicate_identity"
    /\ Failure.info = <<<<PkgX, <<"schema">>>>, <<PkgX, <<"schema", "intent">>>>,
                        <<<<"x", "schema", "intent">>>>>>

\* The .intent files of packages/<d> whose header declares facet intent
IntentFiles(d) ==
    {rel \in SourceFiles(d) : Declared(d, rel) # None /\ Declared(d, rel).facet = <<"intent">>}

\* Every check of the validator passes on the registry
ValidPackage(item) ==
    LET name == item.name.s
        files == fs.dirs[name]
    IN  /\ item.entry.s.dir = name
        /\ item.entry.s.rel \in DOMAIN files
        /\ validate_includes(files, item.entry.s.rel, name, item.version.s).ok
        /\ \A rel \in SourceFiles(name) :
              validate_source_file(files[rel], rel, name, item.version.s).ok
        /\ \A r1, r2 \in SourceFiles(name) :
              (Declared(name, r1).facet = Declared(name, r2).facet) => r1 = r2
        /\ IntentFiles(name) = {item.entry.s.rel}

ValidRegistry ==
    /\ main_prelude.ok
    /\ load_index.ok
    /\ \A k \in 1..Len(Items) :
          /\ check_index_entry(Items[k], {}).ok
          /\ ValidPackage(Items[k])
    /\ \A j, k \in 1..Len(Items) : Items[j].name.s = Items[k].name.s => j = k
    /\ {Items[k].name.s : k \in 1..Len(Items)} = DOMAIN fs.dirs

\* C10: a package whose directory holds no file of facet intent, or two or more, never
\* validates; a registry that is otherwise valid and whose packages each hold exactly
\* one intent-facet file, the one the index names as entry, validates.
C10_SingleEntry ==
    /\ Validated =>
          \A k \in 1..Len(Items) : IntentFiles(Items[k].name.s) = {Items[k].entry.s.rel}
    /\ Validated => \A d \in DOMAIN fs.dirs : Cardinality(IntentFiles(d)) = 1
    /\ (Ended /\ ValidRegistry) => Validated

\* x validated with a nested entry file and one more file
C10_Witness ==
    /\ Validated
    /\ ValidRegistry
    /\ PkgX \in DOMAIN fs.dirs
    /\ IntentFiles(PkgX) = {<<PkgX, <<"intent", "intent">>>>}
    /\ Cardinality(SourceFiles(PkgX)) >= 2

-----------------------------------------------------------------------------
(* Claims about the index and the registry-wide checks of main() (Spec) *)

\* The item satisfies the schema of an index entry
ItemSchemaOk(item) ==
    /\ item.object
    /\ {"name", "version", "entry"} \subseteq item.keys
    /\ item.name.str /\ IsFeature(item.name.s)
    /\ item.version.str /\ IsVersion(item.version.s)
    /\ item.entry.str /\ EntryEndsWithIntent(item.entry.s)

\* The item and its package have no violation of their own
ItemValid(item) ==
    /\ ItemSchemaOk(item)
    /\ item.name.s \in DOMAIN fs.dirs
    /\ ValidPackage(item)

\* Item k names a package an earlier item names
RepeatsName(k) ==
    /\ Items[k].object /\ "name" \in Items[k].keys /\ Items[k].name.str
    /\ \E j \in 1..(k - 1) :
          /\ Items[j].object /\ "name" \in Items[j].keys /\ Items[j].name.str
          /\ Items[j].name.s = Items[k].name.s

IndexNames == {Items[k].name.s : k \in 1..Len(Items)}

MismatchDetails(missing_in_index, missing_on_disk) ==
    (IF missing_in_index # {} THEN <<<<"missing in index", missing_in_index>>>> ELSE <<>>)
        \o (IF missing_on_disk # {} THEN <<<<"missing on disk", missing_on_disk>>>> ELSE <<>>)

\* C11: when the set of index package names differs from the set of package directory
\* names on disk, the registry having no other violation, the run fails with the
\* package/index mismatch error listing the names present in exactly one set (index
\* {a, b} against disk {a, c}: 'missing in index: [c]' and 'missing on disk: [b]').
C11_SetEquality ==
    ( /\ Ended
      /\ main_prelude.ok /\ load_index.ok
      /\ \A k \in 1..Len(Items) :
            /\ ItemSchemaOk(Items[k])
            /\ ~RepeatsName(k)
            /\ Items[k].entry.s.dir = Items[k].name.s
            /\ Items[k].name.s \in DOMAIN fs.dirs => ValidPackage(Items[k])
      /\ IndexNames # DOMAIN fs.dirs )
        => stdout = <<[tag |-> "FAIL", err |-> "package_index_mismatch",
                       info |-> MismatchDetails(DOMAIN fs.dirs \ IndexNames,
                                                IndexNames \ DOMAIN fs.dirs)]>>

DocumentViolated ==
    \/ ~index.object
    \/ "version" \notin index.keys
    \/ ~index.version.str
    \/ "packages" \notin index.keys
    \/ ~index.packages.list
    \/ index.packages.items = <<>>

IndexSchemaErrors ==
    {"index_root_not_object", "index_missing_key", "index_packages_not_array",
     "index_item_not_object", "index_item_missing_key", "index_invalid_name",
     "index_invalid_version", "index_entry_not_intent"}

\* C12: a run that reaches the index fails with an index-schema error when the document
\* is not an object, lacks 'version' or has a 'version' that is not a string, or has a
\* 'packages' that is not a non-empty array, and when its first entry is not an object
\* with a string 'name' of the feature grammar, a string 'version' of the form
\* digits.digits and a string 'entry' ending in .intent; an index with such an entry
\* anywhere never validates.
C12_IndexSchema ==
    (Ended /\ main_prelude.ok /\ index.exists /\ index.json)
        => /\ DocumentViolated => (pc = "exit1" /\ Failure.err \in IndexSchemaErrors)
           /\ (~DocumentViolated /\ ~ItemSchemaOk(Items[1]))
                 => (pc = "exit1" /\ Failure.err \in IndexSchemaErrors)
           /\ (~DocumentViolated /\ \E k \in 1..Len(Items) : ~ItemSchemaOk(Items[k]))
                 => ~Validated

HasRepeatedName == load_index.ok /\ \E k \in 1..Len(Items) : RepeatsName(k)

SecondOccurrence == Min({k \in 1..Len(Items) : RepeatsName(k)})

DuplicateNameFailure ==
    /\ pc = "exit1"
    /\ idx = SecondOccurrence
    /\ stdout = <<[tag |-> "FAIL", err |-> "index_duplicate_name",
                   info |-> <<Items[SecondOccurrence].name.s>>]>>

\* C13 as stated: an index that lists the same package name twice never validates; the
\* run fails at the second occurrence with the duplicate-package-name error.
C13_DuplicateAlwaysReported == (Ended /\ HasRepeatedName) => DuplicateNameFailure

\* C13 as amended: an index that lists the same package name twice never validates;
\* when no check before the duplicate check of the second occurrence fails (the
\* registry-wide checks pass, the entries before it and their packages are valid, and
\* the second occurrence has its three keys) the run fails at the second occurrence
\* with the duplicate-package-name error, and otherwise with the error of that earlier
\* check; on success the number of index entries equals the number of distinct indexed
\* names.
C13_NoDuplicates ==
    /\ HasRepeatedName => ~Validated
    /\ ( /\ Ended /\ HasRepeatedName /\ main_prelude.ok
         /\ \A j \in 1..(SecondOccurrence - 1) : ItemValid(Items[j])
         /\ {"name", "version", "entry"} \subseteq Items[SecondOccurrence].keys )
          => DuplicateNameFailure
    /\ (Ended /\ HasRepeatedName /\ ~DuplicateNameFailure)
          => /\ pc = "exit1"
             /\ \/ ~main_prelude.ok
                \/ idx < SecondOccurrence
                \/ idx = SecondOccurrence /\ Failure.err = "index_item_missing_key"
    /\ Validated => Len(Items) = Cardinality(IndexNames)

\* x, y, x in the index, x and y valid on disk: the run stops at the third entry
C13_Witness ==
    /\ HasRepeatedName
    /\ Len(Items) = 3
    /\ DuplicateNameFailure
    /\ idx = 3
    /\ indexed_names = {PkgX, PkgY}

\* The offending paths, as (directory, file name) pairs
Offending ==
    {m \in (DOMAIN fs.dirs) \X {<<"package", "json">>, <<"manifest", "ail">>,
                                <<"manifest", "intent">>} :
        <<m[2]>> \in DOMAIN fs.dirs[m[1]]}

\* C14: if any package directory contains package.json, manifest.ail or
\* manifest.intent, the run fails with a single stale-manifest error that lists every
\* offending path, and no index or per-package check is performed before it, whatever
\* other violations the registry has.
C14_StaleFirst ==
    Offending # {}
        => /\ pc \in {"main", "exit1"}
           /\ idx = 0 /\ indexed_names = {}
           /\ Ended => stdout = <<[tag |-> "FAIL", err |-> "stale_manifests",
                                   info |-> <<Offending>>]>>

\* Three offending paths in two directories and an index with a broken entry
C14_Witness ==
    /\ Ended
    /\ Offending = {<<PkgX, <<"package", "json">>>>, <<PkgX, <<"manifest", "ail">>>>,
                    <<PkgY, <<"manifest", "intent">>>>}
    /\ load_index.ok /\ ~Items[1].object
    /\ Failure.err = "stale_manifests"

\* C15: when the run reaches the entry path of an index entry that does not start with
\* 'registry/packages/<name>/', it fails with the entry-path-prefix error, the prefix
\* being asserted before the existence of the file, so that an entry that has a wrong
\* prefix and does not exist is reported as a prefix violation.
C15_PrefixBeforeExistence ==
    ( /\ pc = "exit1"
      /\ main_prelude.ok /\ load_index.ok
      /\ idx \in 1..Len(Items)
      /\ Failure.err \in {"index_entry_missing", "index_entry_prefix"}
      /\ Item.entry.s.dir # Item.name.s )
        => Failure.err = "index_entry_prefix"

\* The names of the items before item k
NamesBefore(k) ==
    {Items[j].name.s : j \in {i \in 1..(k - 1) : /\ Items[i].object
                                                  /\ "name" \in Items[i].keys
                                                  /\ Items[i].name.str}}

\* Item k, its entry file and its source files have no violation
EntryClean(k) ==
    /\ check_index_entry(Items[k], NamesBefore(k)).ok
    /\ ValidPackage(Items[k])

\* C16: every run emits exactly one result line, an [OK] line with success status or a
\* [FAIL] line with failure status, never both; after the first violation nothing
\* further runs; and the violations of an earlier index entry, its source files
\* included, are reported in preference to any violation of a later index entry.
C16_FailFast ==
    /\ [](/\ Len(stdout) <= 1
          /\ Ended <=> Len(stdout) = 1
          /\ pc = "exit0" => stdout[1].tag = "OK"
          /\ pc = "exit1" => stdout[1].tag = "FAIL")
    /\ [][~Ended]_vars
    /\ []((Ended /\ main_prelude.ok /\ load_index.ok)
            => /\ \A j \in 1..Min({idx - 1, Len(Items)}) : EntryClean(j)
               /\ \A k \in 1..Len(Items) :
                     (~EntryClean(k) /\ \A j \in 1..(k - 1) : EntryClean(j))
                        => (pc = "exit1" /\ idx = k))

\* The first entry is valid, and both the second entry and its package have violations
\* (a wrong entry prefix; a legacy token in a source file): the run reports the second
\* entry's first violation after validating the first entry
C16_Witness ==
    /\ pc = "exit1"
    /\ load_index.ok
    /\ Len(Items) = 2
    /\ idx = 2
    /\ EntryClean(1)
    /\ indexed_names = {Items[1].name.s}
    /\ stdout = <<[tag |-> "FAIL", err |-> Failure.err, info |-> Failure.info]>>
    /\ Failure.err \notin IndexSchemaErrors \cup {"index_duplicate_name"}

WeatherEntry ==
    <<Header(PkgWeather, "intent", V10), StartLine,
      EntryLine("schema", RelPath(<<<<"weather", "schema", "intent">>>>)), EndLine>>

\* The registry of the scenario: packages/weather with weather.intent and
\* weather.schema.intent, and the index listing weather 1.0
WeatherScenario ==
    /\ fs.exists
    /\ DOMAIN fs.dirs = {PkgWeather}
    /\ DOMAIN fs.dirs[PkgWeather] = {<<<<"weather", "intent">>>>,
                                     <<<<"weather", "schema", "intent">>>>}
    /\ fs.dirs[PkgWeather][<<<<"weather", "intent">>>>] = WeatherEntry
    /\ fs.dirs[PkgWeather][<<<<"weather", "schema", "intent">>>>]
          = <<Header(PkgWeather, "schema", V10)>>
    /\ load_index.ok
    /\ Items = <<[object |-> TRUE, keys |-> {"name", "version", "entry"},
                  name |-> Str(PkgWeather), version |-> Str(V10),
                  entry |-> Str([dir |-> PkgWeather, rel |-> <<<<"weather", "intent">>>>])]>>

\* C17: the weather registry validates, reporting 1 package; on every successful run
\* the reported count equals the number of index entries, which equals the number of
\* package directories on disk.
C17_SuccessCount ==
    /\ (Ended /\ WeatherScenario) => stdout = <<[tag |-> "OK", count |-> 1]>>
    /\ Validated => /\ stdout[1].count = Len(Items)
                    /\ Len(Items) = Cardinality(DOMAIN fs.dirs)

C17_Witness == Validated /\ WeatherScenario

\* The number of INCLUDES block openings in a file
Blocks(lines) == Cardinality({i \in 1..Len(lines) : lines[i].t = "start"})

\* C19 as stated: on a successful run every source file of every validated package,
\* entry file or not, contains at most one INCLUDES block.
C19_EveryFileOneBlock ==
    Validated => \A d \in DOMAIN fs.dirs : \A rel \in SourceFiles(d) :
                    Blocks(fs.dirs[d][rel]) <= 1

\* C19 as amended: on a successful run the entry file of every validated package
\* contains at most one INCLUDES block.
C19_EntryOneBlock ==
    Validated => \A k \in 1..Len(Items) :
                    Blocks(fs.dirs[Items[k].name.s][Items[k].entry.s.rel]) <= 1

\* A validated package whose entry file has one INCLUDES block
C19_Witness ==
    /\ Validated
    /\ \E k \in 1..Len(Items) :
          Blocks(fs.dirs[Items[k].name.s][Items[k].entry.s.rel]) = 1

-----------------------------------------------------------------------------
(* Further claims about validate_includes (SpecIncludes) *)

\* The outcomes of validate_includes: no error, a block-grammar error, a path error or
\* an error of the source validation of a target
GrammarErrors ==
    {"multiple_includes_blocks", "malformed_includes_declaration", "malformed_includes_entry",
     "duplicate_includes_key", "unterminated_includes_block"}

\* The start lines that no closing line follows
OpenStarts(lines) ==
    {s \in StartPositions(lines) : \A k \in (s + 1)..Len(lines) : lines[k].t # "end"}

\* C21 as stated: the INCLUDES scan always terminates, an entry file whose INCLUDES
\* block start is never followed by a closing line fails with the
\* unterminated-INCLUDES-block error provided every line after the start is blank or a
\* well-formed entry, and a block closed on the very last line of the file is not
\* reported as unterminated.
C21_UnterminatedAsStated ==
    (Returned /\ call.fn = "validate_includes")
        => /\ \A s \in OpenStarts(EntryFile) :
                 (\A k \in (s + 1)..Len(EntryFile) :
                     EntryFile[k].t = "blank" \/ INCLUDES_ENTRY_RE(EntryFile[k]))
                    => ret = Fail("unterminated_includes_block", <<>>)
           /\ Last(EntryFile).t = "end" => ret.err # "unterminated_includes_block"

\* C21 as amended: the INCLUDES scan always terminates; an entry file whose INCLUDES
\* block start is never followed by a closing line fails with the
\* unterminated-INCLUDES-block error provided no line before the start begins an
\* INCLUDES declaration and every line after the start is blank or a well-formed entry
\* whose key no earlier entry of the block has; a block closed on the very last line of
\* the file is not reported as unterminated.
C21_Unterminated ==
    /\ [][call.fn = "validate_includes" => Returned']_vars
    /\ []((Returned /\ call.fn = "validate_includes")
            => /\ \A s \in OpenStarts(EntryFile) :
                     (PlainLines(EntryFile, 1, s - 1) /\ GoodEntries(EntryFile, s, Len(EntryFile) + 1))
                        => ret = Fail("unterminated_includes_block", <<>>)
               /\ Last(EntryFile).t = "end" => ret.err # "unterminated_includes_block"
               /\ ret.err = "unterminated_includes_block" => OpenStarts(EntryFile) # {})

\* A block holding two entries and a blank line, and no closing line
C21_Witness ==
    /\ call.fn = "validate_includes"
    /\ Len(EntryFile) = 6
    /\ OpenStarts(EntryFile) = {3}
    /\ EntryFile[4].t = "entry" /\ EntryFile[5].t = "entry" /\ EntryFile[6].t = "blank"
    /\ ret = Fail("unterminated_includes_block", <<>>)

\* The file holds no INCLUDES block, or one block that is closed, whose lines are blank
\* lines and entries with distinct keys, and no other line begins an INCLUDES declaration
WellFormed(lines) ==
    \/ PlainLines(lines, 1, Len(lines))
    \/ \E s \in 1..Len(lines) : \E e \in (s + 1)..Len(lines) :
          /\ lines[s].t = "start" /\ lines[e].t = "end"
          /\ PlainLines(lines, 1, s - 1)
          /\ GoodEntries(lines, s, e)
          /\ PlainLines(lines, e + 1, Len(lines))

\* The positions of the entry lines of the block, in declaration order
RECURSIVE Ascending(_)
Ascending(S) == IF S = {} THEN <<>> ELSE <<Min(S)>> \o Ascending(S \ {Min(S)})

DeclaredPositions(lines) ==
    Ascending({i \in 1..Len(lines) :
                 /\ lines[i].t = "entry"
                 /\ \E s \in 1..(i - 1) :
                       lines[s].t = "start" /\ \A k \in (s + 1)..i : lines[k].t # "end"})

\* The checks of one include in the order claimed: the first that fails, or none
FirstFailing(line) ==
    LET target == Front(call.entry_rel) \o line.rel.parts
        sv == validate_source_file(call.files[target], target,
                                   call.expected_feature, call.expected_version)
    IN  IF line.rel.abs THEN "includes_absolute_path"
        ELSE IF ~EndsWithIntent(line.rel) THEN "includes_wrong_extension"
        ELSE IF HasParentRef(line.rel) THEN "includes_parent_traversal"
        ELSE IF target \notin DOMAIN call.files THEN "includes_missing_file"
        ELSE IF ~sv.ok THEN sv.err
        ELSE IF sv.val.facet # <<line.key>> THEN "include_facet_mismatch"
        ELSE "none"

\* C22: validate_includes parses the whole entry file before it resolves any path, so a
\* block-grammar error anywhere in the file is reported before any path error; then the
\* includes are checked in declaration order and, for one include, in the order absolute
\* path, wrong extension, parent traversal, missing target, source validation of the
\* target, facet against key; the first failing check is the one reported.
C22_Precedence ==
    (Returned /\ call.fn = "validate_includes")
        => LET lines == EntryFile
               decl == DeclaredPositions(lines)
               failing == {n \in 1..Len(decl) : FirstFailing(lines[decl[n]]) # "none"}
           IN  /\ ret.err \in GrammarErrors <=> ~WellFormed(lines)
               /\ WellFormed(lines) =>
                     IF failing = {} THEN ret.ok
                     ELSE /\ ~ret.ok
                          /\ ret.err = FirstFailing(lines[decl[Min(failing)]])

\* An include with an absolute path in a file whose last line is a malformed INCLUDES
\* declaration: the declaration is the error reported
C22_Witness ==
    /\ call.fn = "validate_includes"
    /\ Len(EntryFile) = 5
    /\ EntryFile[3].t = "entry" /\ EntryFile[3].rel.abs
    /\ EntryFile[5] = DeclLine
    /\ ret = Fail("malformed_includes_declaration", <<>>)

\* The entry lines of the file whose key is a facet that is not an include key
OtherKeyLines(lines) ==
    {i \in 1..Len(lines) : lines[i].t = "entry" /\ lines[i].key \in {"mapping", "intent"}}

\* C23: inside an INCLUDES block an entry line is accepted only with key schema, flow,
\* contract, persona, view or event; a line with key mapping or intent fails with the
\* malformed-INCLUDES-entry error when the scan of the block comes to it, so that no
\* call succeeds on a file that includes under such a key or includes a file of facet
\* mapping or intent.
C23_IncludeKeys ==
    (Returned /\ call.fn = "validate_includes")
        => LET lines == EntryFile
               decl == DeclaredPositions(lines)
           IN  /\ \A i \in OtherKeyLines(lines) :
                     /\ \A seen_keys \in SUBSET {"schema", "flow"} :
                           ScanBlock(lines, i, seen_keys, <<>>)
                              = Fail("malformed_includes_entry", <<lines[i]>>)
                     /\ OpenBlockBefore(lines, i)
                           => ret = Fail("malformed_includes_entry", <<lines[i]>>)
               /\ ret.ok =>
                     \A n \in 1..Len(decl) :
                        LET line == lines[decl[n]]
                            target == call.files[Front(call.entry_rel) \o line.rel.parts]
                        IN  /\ line.key \in {"schema", "flow", "contract", "persona",
                                             "view", "event"}
                            /\ target[1].facet = line.key
               /\ \A i \in 1..Len(lines) :
                     (lines[i].t = "entry" /\ OpenBlockBefore(lines, i)
                        /\ ret = Fail("malformed_includes_entry", <<lines[i]>>))
                       => lines[i].key \in {"mapping", "intent"}

\* The include 'mapping: "x.mapping.intent"' of a valid mapping file
C23_Witness ==
    /\ call.fn = "validate_includes"
    /\ Len(EntryFile) = 4
    /\ EntryFile[3] = EntryLine("mapping", RelPath(<<<<"x", "mapping", "intent">>>>))
    /\ <<<<"x", "mapping", "intent">>>> \in DOMAIN call.files
    /\ call.files[<<<<"x", "mapping", "intent">>>>] = <<Header(PkgX, "mapping", V10)>>
    /\ ret = Fail("malformed_includes_entry", <<EntryFile[3]>>)

\* The blocks of the file that hold no entry line: (start, end) positions with only
\* blank lines between them
EmptyBlocks(lines) ==
    {b \in (1..Len(lines)) \X (1..Len(lines)) :
        /\ b[1] < b[2]
        /\ lines[b[1]].t = "start" /\ lines[b[2]].t = "end"
        /\ \A k \in (b[1] + 1)..(b[2] - 1) : lines[k].t = "blank"}

\* C24: an INCLUDES block is accepted only when it holds one or more entry lines between
\* the start marker and the closing marker; a block with no entry line (only blank
\* lines, or the closing marker directly after the start) is rejected.
C24_NonEmptyBlock ==
    (Returned /\ call.fn = "validate_includes" /\ EmptyBlocks(EntryFile) # {}) => ~ret.ok

-----------------------------------------------------------------------------
(* Further claims about main() (Spec) *)

\* The scan of the package of the current item is over: the two final checks are next
AtFinalChecks == pc = "scan" /\ sources = <<>>

\* C25: in every run that reaches the two final per-package checks, the list of
\* intent-facet files the scan has found has exactly one element, the entry file the
\* index declares, so that the failures 'must contain exactly one #intent source file'
\* and 'entry must match intent file' are never reported: two intent files fail earlier
\* as a duplicate identity, and no intent file fails earlier at the entry-file check.
C25_FinalChecksSubsumed ==
    /\ AtFinalChecks => intent_entry_files = <<Item.entry.s.rel>>
    /\ pc = "exit1" => Failure.err \notin {"intent_file_count", "entry_not_intent_file"}
    /\ (pc = "exit1" /\ main_prelude.ok /\ load_index.ok /\ idx \in 1..Len(Items)
          /\ check_index_entry(Items[idx], NamesBefore(idx)).ok)
         => /\ Cardinality(IntentFiles(Item.name.s)) >= 2
                 => Failure.err # "intent_file_count"
            /\ Declared(Item.name.s, Item.entry.s.rel) # None
                 /\ Declared(Item.name.s, Item.entry.s.rel).facet # <<"intent">>
                 => LET e == validate_entry_file(fs.dirs[Item.name.s][Item.entry.s.rel],
                                                 Item.entry.s.rel, Item.name.s, Item.version.s)
                    IN  ~e.ok /\ Failure.err = e.err /\ Failure.info = e.info

\* The scan of a package of three source files has ended and the final checks are next
C25_Witness ==
    /\ AtFinalChecks
    /\ Cardinality(DOMAIN seen_identities) = 3
    /\ intent_entry_files = <<Item.entry.s.rel>>

\* C26: on a successful run every validated package holds at most one source file per
\* facet, hence at most eight .intent files in all, every file declaring the package
\* name as its feature; this holds also when files of the flat layout and of the nested
\* layout are mixed in one package.
C26_OneFilePerFacet ==
    Validated =>
        \A d \in DOMAIN fs.dirs :
            /\ \A rel \in SourceFiles(d) :
                  /\ Declared(d, rel) # None
                  /\ Declared(d, rel).feature = d
                  /\ Declared(d, rel).facet[1] \in FacetSet
            /\ \A r1, r2 \in SourceFiles(d) :
                  Declared(d, r1).facet = Declared(d, r2).facet => r1 = r2
            /\ Cardinality(SourceFiles(d)) <= Cardinality(FacetSet)
            /\ Cardinality(FacetSet) = 8

\* A validated package of three files, of the flat and of the nested layout
C26_Witness ==
    /\ Validated
    /\ \E d \in DOMAIN fs.dirs :
          /\ Cardinality(SourceFiles(d)) = 3
          /\ \E r1, r2 \in SourceFiles(d) : Len(r1) = 1 /\ Len(r2) = 2

-----------------------------------------------------------------------------
(* aim_cli.config.load_config.  A JSON value is <<k, v>>: its kind and its   *)
(* content; a string is the sequence of its characters, an array the         *)
(* sequence of its elements, an object (a dict) the sequence of its          *)
(* (key, value) pairs in insertion order, a key occurring once.  An          *)
(* exception that load_config lets through is a result that is not ok.       *)

JNull == <<"null", <<>>>>

JBool(b) == <<"bool", b>>

JNum(n) == <<"number", n>>

JStr(chars) == <<"string", chars>>

JArr(elements) == <<"array", elements>>

JObj(pairs) == <<"object", pairs>>

\* The strings the configuration names, character by character
Chars ==
    [version |-> <<"v", "e", "r", "s", "i", "o", "n">>,
     stack |-> <<"s", "t", "a", "c", "k">>,
     frontend |-> <<"f", "r", "o", "n", "t", "e", "n", "d">>,
     backend |-> <<"b", "a", "c", "k", "e", "n", "d">>,
     database |-> <<"d", "a", "t", "a", "b", "a", "s", "e">>,
     registry |-> <<"r", "e", "g", "i", "s", "t", "r", "y">>,
     outputDir |-> <<"o", "u", "t", "p", "u", "t", "D", "i", "r">>,
     theme |-> <<"t", "h", "e", "m", "e">>]

Key(name) == JStr(Chars[name])

DEFAULT_CONFIG ==
    JObj(<<<<Key("version"), JStr(<<"1", ".", "0">>)>>,
           <<Key("stack"), JObj(<<<<Key("frontend"), JStr(<<"N", "e", "x", "t", ".", "j", "s">>)>>,
                                  <<Key("backend"), JStr(<<"N", "o", "d", "e", ".", "j", "s">>)>>,
                                  <<Key("database"), JStr(<<"P", "o", "s", "t", "g", "r", "e", "S", "Q", "L">>)>>>>)>>,
           <<Key("registry"), JStr(<<"h", "t", "t", "p", "s", ":", "/", "/", "i", "n", "t", "e", "n", "t",
                                     "m", "o", "d", "e", "l", ".", "d", "e", "v", "/", "r", "e", "g", "i",
                                     "s", "t", "r", "y", "-", "f", "i", "l", "e", "s", "/", "i", "n", "d",
                                     "e", "x", ".", "j", "s", "o", "n">>)>>,
           <<Key("outputDir"), JStr(<<"a", "i", "m">>)>>>>)

\* The keys of a dict
DictKeys(pairs) == {pairs[i][1] : i \in 1..Len(pairs)}

\* d[key]
DictGet(pairs, key) == pairs[CHOOSE i \in 1..Len(pairs) : pairs[i][1] = key][2]

\* d[key] = value
DictSet(pairs, key, value) ==
    IF key \in DictKeys(pairs)
    THEN [i \in 1..Len(pairs) |-> IF pairs[i][1] = key THEN <<key, value>> ELSE pairs[i]]
    ELSE Append(pairs, <<key, value>>)

\* An element of the iterable given to dict.update, read as a (key, value) pair
PairOf(element) ==
    IF element[1] \in {"null", "bool", "number"} THEN Fail("TypeError", <<>>)
    ELSE IF Len(element[2]) # 2 THEN Fail("ValueError", <<>>)
    ELSE LET pair == CASE element[1] = "array" -> element[2]
                       [] element[1] = "string" -> <<JStr(<<element[2][1]>>), JStr(<<element[2][2]>>)>>
                       [] element[1] = "object" -> <<element[2][1][1], element[2][2][1]>>
         IN  IF pair[1][1] \in {"array", "object"} THEN Fail("TypeError", <<>>)
             ELSE Return(pair)

RECURSIVE UpdatePairs(_, _, _)
\* dict.update over a sequence of elements, from element i on
UpdatePairs(pairs, elements, i) ==
    IF i > Len(elements) THEN Return(pairs)
    ELSE LET p == PairOf(elements[i])
         IN  IF ~p.ok THEN p
             ELSE UpdatePairs(DictSet(pairs, p.val[1], p.val[2]), elements, i + 1)

\* merged.update(config), and {**a, **b} for b = config
dict_update(pairs, config) ==
    CASE config[1] \in {"null", "bool", "number"} -> Fail("TypeError", <<>>)
      [] config[1] = "string" -> UpdatePairs(pairs, [i \in 1..Len(config[2]) |-> JStr(<<config[2][i]>>)], 1)
      [] config[1] = "array" -> UpdatePairs(pairs, config[2], 1)
      [] config[1] = "object" -> UpdatePairs(pairs, [i \in 1..Len(config[2]) |-> JArr(config[2][i])], 1)

\* 'stack' in config, for the config values update() accepts
HasStack(config) ==
    CASE config[1] = "object" -> Key("stack") \in DictKeys(config[2])
      [] config[1] = "array" -> \E i \in 1..Len(config[2]) : config[2][i] = Key("stack")
      [] config[1] = "string" ->
            \E i \in 1..(Len(config[2]) - 4) : SubSeq(config[2], i, i + 4) = Chars["stack"]

\* file: aim.config.json as [exists, json, value]
load_config(file) ==
    IF ~file.exists THEN Return(DEFAULT_CONFIG)
    ELSE IF ~file.json THEN Return(DEFAULT_CONFIG)
    ELSE LET config == file.value
             merged == dict_update(DEFAULT_CONFIG[2], config)
         IN  IF ~merged.ok THEN merged
             ELSE IF ~HasStack(config) THEN Return(JObj(merged.val))
             ELSE IF config[1] # "object" THEN Fail("TypeError", <<>>)
             ELSE LET stack == dict_update(DictGet(DEFAULT_CONFIG[2], Key("stack"))[2],
                                           DictGet(config[2], Key("stack")))
                  IN  IF DictGet(config[2], Key("stack"))[1] # "object"
                      THEN Fail("TypeError", <<>>)
                      ELSE Return(JObj(DictSet(merged.val, Key("stack"), JObj(stack.val))))

\* The subsequences of a sequence of pairs
RECURSIVE SubDicts(_)
SubDicts(pairs) ==
    IF pairs = <<>> THEN {<<>>}
    ELSE LET rest == SubDicts(Tail(pairs))
         IN  rest \cup {<<Head(pairs)>> \o r : r \in rest}

\* The values 'stack' may have in the file
StackValues ==
    {JObj(d) : d \in SubDicts(<<<<Key("frontend"), JStr(<<"R", "e", "a", "c", "t">>)>>,
                                <<Key("backend"), JNull>>,
                                <<Key("database"), JStr(<<>>)>>,
                                <<Key("theme"), JBool(TRUE)>>>>)}
        \cup {JStr(<<"x">>), JStr(<<>>), JNull, JNum(5), JBool(FALSE), JArr(<<>>),
              JArr(<<JArr(<<Key("frontend"), JStr(<<"x">>)>>)>>)}

\* The JSON values aim.config.json may hold
ConfigValues ==
    {JNull, JBool(TRUE), JNum(5), JStr(<<>>), JStr(<<"a", "b">>), Key("stack"),
     JArr(<<>>), JArr(<<JNum(1), JNum(2)>>), JArr(<<JStr(<<"a", "b">>)>>), JArr(<<Key("stack")>>),
     JArr(<<JArr(<<JStr(<<"a">>), JStr(<<"b">>)>>)>>), JArr(<<JArr(<<JNum(1), JNum(2)>>)>>),
     JArr(<<JArr(<<JArr(<<>>), JNum(1)>>)>>), JArr(<<JArr(<<Key("stack"), JNum(1)>>)>>),
     JArr(<<JArr(<<Key("version")>>)>>),
     JArr(<<JObj(<<<<Key("version"), JNull>>, <<Key("stack"), JNull>>>>)>>)}
        \cup {JObj(d \o st) :
                d \in SubDicts(<<<<Key("version"), JStr(<<"2", ".", "0">>)>>,
                                 <<Key("registry"), JNull>>,
                                 <<Key("theme"), JStr(<<"x">>)>>,
                                 <<Key("outputDir"), JNum(5)>>>>),
                st \in {<<>>} \cup {<<<<Key("stack"), v>>>> : v \in StackValues}}

ConfigFiles ==
    {[exists |-> FALSE], [exists |-> TRUE, json |-> FALSE]}
        \cup {[exists |-> TRUE, json |-> TRUE, value |-> v] : v \in ConfigValues}

InitConfig == call \in {[fn |-> "load_config", file |-> f] : f \in ConfigFiles}
              /\ ret = Pending /\ MainIdle

CallLoadConfig ==
    /\ call.fn = "load_config"
    /\ ret = Pending
    /\ ret' = load_config(call.file)
    /\ UNCHANGED <<call, mainVars>>

SpecConfig == InitConfig /\ [][CallLoadConfig]_vars

\* The dict has the keys named
HasKeys(value, names) ==
    /\ value[1] = "object"
    /\ \A n \in names : Key(n) \in DictKeys(value[2])

\* C27: load_config never fails and always returns a configuration that holds the keys
\* version, registry and outputDir and a stack object with frontend, backend and
\* database, whatever aim.config.json is: absent, not valid JSON, a JSON value that is
\* not an object, an object with only some of the keys, or an object whose stack is
\* partial or not an object.
C27_LoadConfigTotal ==
    (Returned /\ call.fn = "load_config")
        => /\ ret.ok
           /\ HasKeys(ret.val, {"version", "registry", "outputDir", "stack"})
           /\ HasKeys(DictGet(ret.val[2], Key("stack")), {"frontend", "backend", "database"})

-----------------------------------------------------------------------------
(* aim_cli.cli: the fetch command.  The project directory is a record     *)
(* fs = [aim_exists, aim, lock]: whether aim/ exists, the files of aim/   *)
(* (file name -> content) and the file aim.lock.  A path is the sequence  *)
(* of its components, a downloaded text is identified by the path it was  *)
(* served from, and aim.lock is absent, unparsable, a JSON value that is  *)
(* not an object, or an object (package name -> version and entry).       *)

\* What find_package returns when no package has the name (None).
NoPackage == [name |-> "", version |-> "", entry |-> <<>>]

NoFiles == [f \in {} |-> <<>>]

LockAbsent == [kind |-> "absent", data |-> NoFiles]

LockCorrupt == [kind |-> "corrupt", data |-> NoFiles]

LockArray == [kind |-> "array", data |-> NoFiles]

LockObject(data) == [kind |-> "object", data |-> data]

Put(files, name, content) ==
    [f \in DOMAIN files \cup {name} |-> IF f = name THEN content ELSE files[f]]

\* find_package: the first package of the registry with the given name.
find_package(registry, package_name) ==
    LET packages == registry.packages
        hits == {i \in 1..Len(packages) : packages[i].name = package_name}
    IN  IF hits = {} THEN NoPackage
        ELSE packages[CHOOSE i \in hits : \A j \in hits : i <= j]

\* resolve_package_urls: the first "registry/" of the entry path becomes
\* "registry-files/", behind the base URL; one URL per package.
resolve_package_urls(entry_path) ==
    LET at == {i \in 1..(Len(entry_path) - 1) : entry_path[i] = "registry"}
        first == CHOOSE i \in at : \A j \in at : i <= j
        url_path == IF at = {} THEN entry_path
                    ELSE [entry_path EXCEPT ![first] = "registry-files"]
    IN  << <<"https:", "", "intentmodel.dev">> \o url_path >>

\* What the server holds at a URL: the text is identified by its URL, and
\* its first line is an AIM header unless the file is the broken one.
BrokenFile == "c.intent"

ServerFile(url) == [origin |-> url, header |-> Last(url) # BrokenFile]

\* update_lock_file: an unreadable lock is replaced by an empty object, a
\* lock that is not an object cannot take an entry (TypeError).
update_lock_file(lock, pkg) ==
    LET lock_data == IF lock.kind = "object" THEN lock.data ELSE NoFiles
    IN  IF lock.kind = "array" THEN Fail("TypeError", <<>>)
        ELSE Return(LockObject(Put(lock_data, pkg.name,
                        [version |-> pkg.version, entry |-> pkg.entry])))

\* fetch_registry: the index of the server, or the end of the process with
\* status 1 when the request or the parsing of the answer fails; a timeout
\* while the answer is read is no URLError and leaves as an exception.
fetch_registry(net) ==
    IF net.index.status = "URLError" THEN Fail("SystemExit", <<1>>)
    ELSE IF net.index.status = "JSONDecodeError" THEN Fail("SystemExit", <<1>>)
    ELSE IF net.index.status = "TimeoutError" THEN Fail("TimeoutError", <<>>)
    ELSE Return(net.index.data)

\* fetch_file: the text behind a URL, or an Exception.
fetch_file(net, url) ==
    IF net.files_up THEN Return(ServerFile(url)) ELSE Fail("Exception", url)

\* cmd_fetch: the project directory after the command and how the command
\* ended.  aim/ is created first; the one URL of the package is downloaded
\* and written under its last component; aim.lock is updated last.
cmd_fetch(project, package_name, net) ==
    LET made == [project EXCEPT !.aim_exists = TRUE]
        registry == fetch_registry(net)
    IN  IF ~registry.ok THEN [fs |-> made, result |-> registry]
        ELSE LET pkg == find_package(registry.val, package_name)
             IN  IF pkg = NoPackage
                 THEN [fs |-> made, result |-> Fail("SystemExit", <<1>>)]
                 ELSE LET url == resolve_package_urls(pkg.entry)[1]
                          content == fetch_file(net, url)
                          filename == Last(url)
                          saved == [made EXCEPT
                                      !.aim = Put(made.aim, filename, content.val)]
                          lock == update_lock_file(project.lock, pkg)
                      IN  IF ~content.ok
                          THEN [fs |-> made, result |-> Fail("SystemExit", <<1>>)]
                          ELSE IF ~lock.ok THEN [fs |-> saved, result |-> lock]
                          ELSE [fs |-> [saved EXCEPT !.lock = lock.val],
                                result |-> Return(<<>>)]

\* The packages the server may publish, and its index at different times.
Published(name, version, entry) ==
    [name |-> name, version |-> version, entry |-> entry]

NestedEntry(name) == <<"registry", "packages", name, name, "intent.intent">>

FlatA == <<"registry", "packages", "a", "a.intent">>

FlatC == <<"registry", "packages", "c", "c.intent">>

IndexABC ==
    <<Published("a", "1.1", FlatA), Published("b", "1.0", NestedEntry("b")),
      Published("c", "1.0", FlatC)>>

ServerIndexes ==
    { <<>>,
      <<Published("a", "1.0", FlatA), Published("b", "1.0", NestedEntry("b"))>>,
      IndexABC,
      <<Published("a", "2.0", NestedEntry("a")), Published("c", "1.0", FlatC),
        Published("a", "1.0", FlatA)>> }

Networks ==
    {[index |-> [status |-> "ok", data |-> [packages |-> i]], files_up |-> up] :
        i \in ServerIndexes, up \in BOOLEAN}
    \cup {[index |-> [status |-> st, data |-> [packages |-> <<>>]],
           files_up |-> TRUE] :
              st \in {"URLError", "JSONDecodeError", "TimeoutError"}}

PackageArgs == {"a", "b", "c", "d"}

FreshProjects ==
    {[aim_exists |-> e, aim |-> NoFiles, lock |-> l] :
        e \in BOOLEAN, l \in {LockAbsent, LockCorrupt, LockArray}}

\* One run of "fetch <package>" after another in the same directory; call
\* and ret keep the last command and how it ended.
InitFetch ==
    /\ fs \in FreshProjects
    /\ call = [fn |-> "cmd_fetch", package |-> "", net |-> <<>>]
    /\ ret = Pending
    /\ index = <<>> /\ pc = "idle" /\ idx = 0 /\ indexed_names = {}
    /\ sources = <<>> /\ seen_identities = <<>> /\ intent_entry_files = <<>>
    /\ stdout = <<>>

RunFetch ==
    \E package \in PackageArgs, net \in Networks :
        LET run == cmd_fetch(fs, package, net)
        IN  /\ call' = [fn |-> "cmd_fetch", package |-> package, net |-> net]
            /\ fs' = run.fs
            /\ ret' = run.result
            /\ UNCHANGED <<index, pc, idx, indexed_names, sources,
                           seen_identities, intent_entry_files, stdout>>

SpecFetch == InitFetch /\ [][RunFetch]_vars

\* The packages aim.lock records.
Locked == IF fs.lock.kind = "object" THEN DOMAIN fs.lock.data ELSE {}

\* The entry file of a recorded package is in aim/ under the base filename
\* of the recorded entry path, with the text the server holds for that path.
EntryFileStored(p) ==
    LET entry == fs.lock.data[p].entry
    IN  /\ Last(entry) \in DOMAIN fs.aim
        /\ fs.aim[Last(entry)] = ServerFile(resolve_package_urls(entry)[1])

\* A step that is a fetch which succeeded: the lock records the version and
\* entry the registry gave for the package, and every other entry is as it was.
FetchRecords ==
    ret'.ok =>
        LET pkg == find_package(call'.net.index.data, call'.package)
            before == IF fs.lock.kind = "object" THEN fs.lock.data ELSE NoFiles
        IN  /\ fs'.lock.kind = "object"
            /\ fs'.lock.data[pkg.name] =
                   [version |-> pkg.version, entry |-> pkg.entry]
            /\ \A q \in DOMAIN before \ {pkg.name} :
                   q \in DOMAIN fs'.lock.data /\ fs'.lock.data[q] = before[q]

\* A step that is a fetch which failed leaves aim.lock as it was.
FailedFetchKeepsLock == ~ret'.ok => fs'.lock = fs.lock

\* C28: after any sequence of fetch commands every package recorded in
\* aim.lock has its entry file in aim/ under the base filename of its entry
\* path, with that package's text; a successful fetch records the version
\* and entry of the package fetched and leaves the other lock entries alone;
\* a failed fetch leaves aim.lock unchanged.
C28_LockMatchesFiles ==
    /\ [](\A p \in Locked : EntryFileStored(p))
    /\ [][FetchRecords /\ FailedFetchKeepsLock]_vars

-----------------------------------------------------------------------------
(* aim_cli.menu: the interactive menu.  What the user types at a numbered *)
(* prompt is a number of the range (after any re-prompts), an empty line, *)
(* an interrupt or the end of the input; what they do at a "Press Enter"  *)
(* prompt is "enter", "interrupt" or "eof".  A handler yields the project *)
(* directory it leaves, how it ended, and the errors it printed.          *)

MenuInputs(n) ==
    {[kind |-> "number", num |-> k] : k \in 0..n}
    \cup {[kind |-> k, num |-> 0] : k \in {"empty", "interrupt", "eof"}}

Keys == {"enter", "interrupt", "eof"}

\* get_menu_choice: <<n>> for a number, None for an empty line, an
\* interrupt or the end of the input.
get_menu_choice(typed) == IF typed.kind = "number" THEN <<typed.num>> ELSE None

\* input("Press Enter to continue...")
press_enter(key) ==
    IF key = "enter" THEN Return(<<>>)
    ELSE IF key = "interrupt" THEN Fail("KeyboardInterrupt", <<>>)
    ELSE Fail("EOFError", <<>>)

Handled(project, result, out) == [fs |-> project, result |-> result, out |-> out]

\* cmd_init
cmd_init(project) == [project EXCEPT !.aim_exists = TRUE]

\* menu_init: the confirmation is answered with Enter.
menu_init(project, key) ==
    IF project.aim_exists THEN Handled(project, press_enter(key), <<>>)
    ELSE Handled(cmd_init(project), press_enter(key), <<>>)

\* menu_fetch: "except Exception" does not catch the SystemExit that
\* fetch_registry and cmd_fetch raise through sys.exit.
menu_fetch(project, net, typed, net2, key) ==
    LET made == [project EXCEPT !.aim_exists = TRUE]
        registry == fetch_registry(net)
    IN  IF ~registry.ok
        THEN IF registry.err = "SystemExit"
             THEN Handled(made, registry, <<"Failed to fetch registry">>)
             ELSE Handled(made, press_enter(key), <<"Failed to fetch registry">>)
        ELSE IF registry.val.packages = <<>>
        THEN Handled(made, press_enter(key), <<>>)
        ELSE LET choice == get_menu_choice(typed)
             IN  IF choice = None \/ choice = <<0>>
                 THEN Handled(made, Return(<<>>), <<>>)
                 ELSE LET selected_pkg == registry.val.packages[choice[1]]
                          run == cmd_fetch(made, selected_pkg.name, net2)
                      IN  IF run.result.ok
                          THEN Handled(run.fs, press_enter(key), <<>>)
                          ELSE IF run.result.err = "SystemExit"
                          THEN Handled(run.fs, run.result, <<"Failed to fetch">>)
                          ELSE Handled(run.fs, press_enter(key),
                                       <<"Failed to fetch package">>)

\* cmd_validate: the files of aim/ are checked for an AIM header; the
\* process ends with status 1 when one of them is invalid.
cmd_validate(project) ==
    IF ~project.aim_exists THEN Return(<<>>)
    ELSE IF DOMAIN project.aim = {} THEN Return(<<>>)
    ELSE IF \E f \in DOMAIN project.aim : ~project.aim[f].header
         THEN Fail("SystemExit", <<1>>)
         ELSE Return(<<>>)

\* menu_validate
menu_validate(project, key) ==
    LET run == cmd_validate(project)
    IN  IF run.ok THEN Handled(project, press_enter(key), <<>>)
        ELSE Handled(project, run, <<"Missing AIM header">>)

\* cmd_info
cmd_info(package_name, net) ==
    LET registry == fetch_registry(net)
    IN  IF ~registry.ok THEN registry
        ELSE IF find_package(registry.val, package_name) = NoPackage
             THEN Fail("SystemExit", <<1>>)
             ELSE Return(<<>>)

\* menu_info
menu_info(project, net, typed, net2, key) ==
    LET registry == fetch_registry(net)
    IN  IF ~registry.ok
        THEN IF registry.err = "SystemExit"
             THEN Handled(project, registry, <<"Failed to fetch registry">>)
             ELSE Handled(project, press_enter(key), <<"Failed to fetch registry">>)
        ELSE IF registry.val.packages = <<>>
        THEN Handled(project, press_enter(key), <<>>)
        ELSE LET choice == get_menu_choice(typed)
             IN  IF choice = None \/ choice = <<0>>
                 THEN Handled(project, Return(<<>>), <<>>)
                 ELSE LET selected_pkg == registry.val.packages[choice[1]]
                          run == cmd_info(selected_pkg.name, net2)
                      IN  IF run.ok THEN Handled(project, press_enter(key), <<>>)
                          ELSE Handled(project, run, <<"Failed to fetch">>)

\* menu_list, menu_synth, menu_config_wizard, menu_config_view and
\* menu_help change nothing in aim/ or aim.lock and never call sys.exit:
\* they return, or an exception of theirs (load_config on a bad
\* configuration file) reaches the loop, or a prompt of theirs is left by
\* an interrupt or the end of the input.
menu_local(project, raises, key) ==
    IF raises THEN Handled(project, Fail("TypeError", <<>>), <<>>)
    ELSE Handled(project, press_enter(key), <<>>)

\* One pass of the loop of run_interactive_menu, given how the handler
\* ended: the loop goes on, or run_interactive_menu returns ("goodbye"), or
\* the process ends with a status ("exit 0", "exit 1"), or it ends with a
\* traceback ("crash").  An exception is reported and followed by a
\* "Press Enter" prompt; what that prompt raises leaves the loop.
AfterHandler(result, key) ==
    IF result.ok THEN "menu"
    ELSE IF result.err = "KeyboardInterrupt" THEN "goodbye"
    ELSE IF result.err = "SystemExit" THEN "exit 1"
    ELSE IF key = "enter" THEN "menu"
    ELSE IF key = "interrupt" THEN "exit 0"
    ELSE "crash"

\* What the loop itself prints for an exception of a handler.
LoopReport(result) ==
    IF result.ok \/ result.err \in {"KeyboardInterrupt", "SystemExit"}
    THEN <<>> ELSE <<"An error occurred">>

MenuNetworks ==
    {n \in Networks : IF n.index.status = "ok"
                      THEN n.index.data.packages = IndexABC
                      ELSE n.index.status # "JSONDecodeError"}

\* The menu is started in a project directory; call keeps what the user
\* chose in the last pass and what the network did, stdout the errors
\* printed in that pass.
InitMenu ==
    /\ fs \in {p \in FreshProjects : p.lock = LockAbsent}
    /\ call = [fn |-> "run_interactive_menu", choice |-> 0, key |-> "enter",
               net |-> <<>>, typed |-> <<>>, net2 |-> <<>>]
    /\ ret = Pending
    /\ pc = "menu"
    /\ index = <<>> /\ idx = 0 /\ indexed_names = {}
    /\ sources = <<>> /\ seen_identities = <<>> /\ intent_entry_files = <<>>
    /\ stdout = <<>>

MenuPass(choice, key, net, typed, net2, handled) ==
    /\ call' = [fn |-> "run_interactive_menu", choice |-> choice, key |-> key,
                net |-> net, typed |-> typed, net2 |-> net2]
    /\ fs' = handled.fs
    /\ ret' = handled.result
    /\ pc' = AfterHandler(handled.result, key)
    /\ stdout' = handled.out \o LoopReport(handled.result)
    /\ UNCHANGED <<index, idx, indexed_names, sources, seen_identities,
                   intent_entry_files>>

\* Choice 0, an empty line, an interrupt or the end of the input at the main
\* prompt: "Goodbye!", and run_interactive_menu returns.
MenuExit ==
    /\ pc = "menu"
    /\ \E typed \in MenuInputs(0) :
        /\ call' = [fn |-> "run_interactive_menu", choice |-> 0, key |-> "enter",
                    net |-> <<>>, typed |-> typed, net2 |-> <<>>]
        /\ pc' = "goodbye"
        /\ ret' = Return(<<>>)
        /\ stdout' = <<>>
        /\ UNCHANGED <<fs, index, idx, indexed_names, sources, seen_identities,
                       intent_entry_files>>

MenuInit ==
    /\ pc = "menu"
    /\ \E key \in Keys :
        MenuPass(1, key, <<>>, <<>>, <<>>, menu_init(fs, key))

MenuFetch ==
    /\ pc = "menu"
    /\ \E key \in Keys, net \in MenuNetworks, net2 \in MenuNetworks :
        \E typed \in MenuInputs(Len(net.index.data.packages)) :
            MenuPass(2, key, net, typed, net2,
                     menu_fetch(fs, net, typed, net2, key))

MenuLocal ==
    /\ pc = "menu"
    /\ \E choice \in {3, 4, 5, 6, 9}, key \in Keys, raises \in BOOLEAN :
        MenuPass(choice, key, <<>>, <<>>, <<>>, menu_local(fs, raises, key))

MenuValidate ==
    /\ pc = "menu"
    /\ \E key \in Keys :
        MenuPass(7, key, <<>>, <<>>, <<>>, menu_validate(fs, key))

MenuInfo ==
    /\ pc = "menu"
    /\ \E key \in Keys, net \in MenuNetworks, net2 \in MenuNetworks :
        \E typed \in MenuInputs(Len(net.index.data.packages)) :
            MenuPass(8, key, net, typed, net2,
                     menu_info(fs, net, typed, net2, key))

NextMenu ==
    \/ MenuExit
    \/ MenuInit
    \/ MenuFetch
    \/ MenuLocal
    \/ MenuValidate
    \/ MenuInfo

SpecMenu == InitMenu /\ [][NextMenu]_vars

\* The operation of the handler chosen in this pass fails: the registry
\* cannot be fetched in "Fetch package" or "Package information", the
\* download of the chosen package fails, or "Validate intent files" finds
\* a file of aim/ without an AIM header.
RegistryFetchFails ==
    call'.choice \in {2, 8} /\ call'.net.index.status # "ok"

DownloadFails ==
    /\ call'.choice = 2
    /\ call'.net.index.status = "ok"
    /\ call'.typed.kind = "number" /\ call'.typed.num >= 1
    /\ call'.net2.index.status = "ok"
    /\ ~call'.net2.files_up

ValidateFindsInvalid ==
    /\ call'.choice = 7
    /\ fs.aim_exists
    /\ \E f \in DOMAIN fs.aim : ~fs.aim[f].header

OperationFails == RegistryFetchFails \/ DownloadFails \/ ValidateFindsInvalid

\* C29: a pass of the menu loop leaves the main prompt only when the user
\* chose 0, gave an empty line or interrupted (at the main prompt or at a
\* prompt of the handler); when the operation of a handler fails and the
\* user answers the prompts, the error is printed and the next state is the
\* main prompt again, the process has not ended.
C29_MenuSurvives ==
    /\ [][pc' # "menu" => (call'.choice = 0 \/ call'.key # "enter")]_vars
    /\ [][(OperationFails /\ call'.key = "enter")
             => (pc' = "menu" /\ stdout' # <<>>)]_vars

=============================================================================
